---- MODULE Spec2Model ----
(***************************************************************************)
(* A model of the ali-oss-rs client operations of src/multipart.rs and     *)
(* src/object.rs, together with the object-storage service they talk to.   *)
(*                                                                         *)
(* Strings are sequences of one-character strings, so that emptiness,      *)
(* prefixes and the base64 alphabet are computed and not assumed.          *)
(* An Option<T> is a set with at most one element: None is {}, Some(v) is  *)
(* {v}.  A Result<T> is a record [ok, val] or [ok, err].                   *)
(***************************************************************************)
EXTENDS Integers, Sequences, FiniteSets, TLC

VARIABLES
    uploads,    \* service: the multipart sessions, indexed by issue order
    objects,    \* service: the objects of the bucket, by object key
    caller,     \* history: per session, what the caller was told and what it uploaded
    last,       \* the call that has just returned: operation, arguments, requests sent,
                \* what the network did with the request, result
    calls,      \* the number of calls made so far
    flight,     \* per concurrent task, its call under way and how far it has got
    disk,       \* the caller's file system: its directories and its files' bytes
    versions,   \* service: per key of the versioned bucket, its versions' data and tags
    client      \* the Client every operation borrows as &self

vars == <<uploads, objects, caller, last, calls, flight, disk, versions, client>>

-----------------------------------------------------------------------------
(* Bounds of the model *)

MaxCalls == 4          \* calls made in one run
MaxPartNumber == 2     \* part numbers are 1..MaxPartNumber

-----------------------------------------------------------------------------
(* Option and Result *)

None == {}
Some(v) == {v}
IsSome(o) == o /= {}
Unwrap(o) == CHOOSE v \in o : TRUE

Ok(v) == [ok |-> TRUE, val |-> v]
Err(e) == [ok |-> FALSE, err |-> e]

\* The variants of crate::error::Error the operations produce.
ErrOther(msg) == [kind |-> "Other", status |-> 0, msg |-> msg]
ErrStatus(code) == [kind |-> "StatusError", status |-> code, msg |-> "status"]
ErrTransport == [kind |-> "Transport", status |-> 0, msg |-> "transport"]
ErrDecode(what) == [kind |-> "Decode", status |-> 0, msg |-> what]
ErrIo(what) == [kind |-> "Io", status |-> 0, msg |-> what]

Min(a, b) == IF a <= b THEN a ELSE b

RECURSIVE Concat(_)
\* The concatenation of a sequence of byte sequences.
Concat(ss) == IF ss = <<>> THEN <<>> ELSE Head(ss) \o Concat(Tail(ss))

\* The elements of a finite set of integers, in ascending order.
RECURSIVE Ascending(_)
Ascending(S) ==
    IF S = {} THEN <<>>
    ELSE LET m == CHOOSE x \in S : \A y \in S : x <= y
         IN <<m>> \o Ascending(S \ {m})

-----------------------------------------------------------------------------
(* Names: bucket names, object keys, upload ids *)

MaxObjectKeyLen == 1023

\* The characters a bucket name may hold.
BucketChars == {"b", "k", "t", "1", "-"}

validate_bucket_name(name) ==
    /\ Len(name) >= 1
    /\ \A i \in 1..Len(name) : name[i] \in BucketChars
    /\ name[1] /= "-"
    /\ name[Len(name)] /= "-"

validate_object_key(key) ==
    /\ Len(key) >= 1
    /\ Len(key) <= MaxObjectKeyLen
    /\ key[1] \notin {"/", "\\"}
    /\ key[Len(key)] \notin {"/", "\\"}

\* str::strip_prefix("/").unwrap_or(s) and str::strip_suffix("/").unwrap_or(s)
strip_prefix(s) == IF Len(s) >= 1 /\ s[1] = "/" THEN Tail(s) ELSE s
strip_suffix(s) == IF Len(s) >= 1 /\ s[Len(s)] = "/" THEN SubSeq(s, 1, Len(s) - 1) ELSE s

\* The upload id the service issues for its n-th session.
UploadIdOf(n) == <<"u", n>>
IsIssuedId(id) == Len(id) = 2 /\ id[1] = "u" /\ id[2] \in 1..Len(uploads)
SessionOf(id) == id[2]

-----------------------------------------------------------------------------
(* Standard base64 (alphabet A-Z a-z 0-9 + /, padding '=', canonical) *)

B64Alphabet ==
    << "A","B","C","D","E","F","G","H","I","J","K","L","M","N","O","P",
       "Q","R","S","T","U","V","W","X","Y","Z","a","b","c","d","e","f",
       "g","h","i","j","k","l","m","n","o","p","q","r","s","t","u","v",
       "w","x","y","z","0","1","2","3","4","5","6","7","8","9","+","/" >>

IsB64Symbol(c) == \E i \in 1..Len(B64Alphabet) : B64Alphabet[i] = c
B64Value(c) == (CHOOSE i \in 1..Len(B64Alphabet) : B64Alphabet[i] = c) - 1

\* One group of four symbols; last = TRUE for the final group, the only
\* one that may end in padding.
DecodeQuad(q, isLast) ==
    IF ~(IsB64Symbol(q[1]) /\ IsB64Symbol(q[2])) THEN Err(ErrDecode("base64"))
    ELSE LET v1 == B64Value(q[1])
             v2 == B64Value(q[2])
         IN IF q[3] = "=" THEN
                IF isLast /\ q[4] = "=" /\ v2 % 16 = 0
                THEN Ok(<< v1 * 4 + v2 \div 16 >>)
                ELSE Err(ErrDecode("base64"))
            ELSE IF ~IsB64Symbol(q[3]) THEN Err(ErrDecode("base64"))
            ELSE LET v3 == B64Value(q[3])
                 IN IF q[4] = "=" THEN
                        IF isLast /\ v3 % 4 = 0
                        THEN Ok(<< v1 * 4 + v2 \div 16, (v2 % 16) * 16 + v3 \div 4 >>)
                        ELSE Err(ErrDecode("base64"))
                    ELSE IF ~IsB64Symbol(q[4]) THEN Err(ErrDecode("base64"))
                    ELSE Ok(<< v1 * 4 + v2 \div 16,
                               (v2 % 16) * 16 + v3 \div 4,
                               (v3 % 4) * 64 + B64Value(q[4]) >>)

RECURSIVE DecodeQuads(_)
DecodeQuads(s) ==
    IF s = <<>> THEN Ok(<<>>)
    ELSE LET head == DecodeQuad(SubSeq(s, 1, 4), Len(s) = 4)
             rest == DecodeQuads(SubSeq(s, 5, Len(s)))
         IN IF ~head.ok THEN head
            ELSE IF ~rest.ok THEN rest
            ELSE Ok(head.val \o rest.val)

\* BASE64_STANDARD.decode(s)
Base64Decode(s) ==
    IF Len(s) % 4 /= 0 THEN Err(ErrDecode("base64")) ELSE DecodeQuads(s)

-----------------------------------------------------------------------------
(* Local files and byte sources *)

\* The local file the tests upload from: its bytes.
FileContent == <<1, 2>>

\* RequestBody: Empty, Bytes(buffer), File(path, Option<Range>)
BodyEmpty == [variant |-> "Empty", bytes |-> <<>>, range |-> None]
BodyBytes(buffer) == [variant |-> "Bytes", bytes |-> buffer, range |-> None]
BodyFile(range) == [variant |-> "File", bytes |-> FileContent, range |-> range]

\* A faulty variant of WireBytes: a File body is read from start to the end
\* of the file.
WireBytesToEndOfFile(body) == IF body.variant = "File" /\ IsSome(body.range) THEN SubSeq(body.bytes, Unwrap(body.range).start + 1, Len(body.bytes)) ELSE body.bytes

\* The bytes a request body puts on the wire: a File body with a range
\* streams the bytes of [start, end) and no byte at or past end.
WireBytes(body) ==
    IF body.variant = "File" /\ IsSome(body.range)
    THEN LET r == Unwrap(body.range)
         IN SubSeq(body.bytes, r.start + 1, Min(r.end, Len(body.bytes)))
    ELSE body.bytes

\* The ETag the service computes for content: a fingerprint of the bytes.
ETagOf(bytes) == [md5 |-> bytes]

\* The caller's file system.  A path is a string; "/" separates its
\* components.  `dirs` are the directories that exist, `files` maps the
\* paths of the files that exist to their bytes.
Root == <<"/">>
Cwd == <<"/", "w">>
EmptyDisk == [dirs |-> {Root, Cwd}, files |-> [p \in {} |-> <<>>]]

\* Path::is_relative
is_relative(path) == path = <<>> \/ path[1] /= "/"

\* Path::canonicalize of a relative path with no "." or ".." component: the
\* path under the working directory, an error unless it exists.
canonicalize(path, d) ==
    LET full == Cwd \o <<"/">> \o path
    IN IF full \in DOMAIN d.files \/ full \in d.dirs THEN Ok(full)
       ELSE Err(ErrIo("not found"))

\* util::validate_path: a path holding one of these characters is refused.
InvalidPathChars == {">", "|"}
validate_path(path) ==
    path /= <<>> /\ \A i \in 1..Len(path) : path[i] \notin InvalidPathChars

\* Path::parent: the path without its last component; none for the root.
parent(path) ==
    LET slashes == {i \in 1..Len(path) : path[i] = "/"}
    IN IF path = Root \/ path = <<>> THEN None
       ELSE IF slashes = {} THEN Some(<<>>)
       ELSE LET k == CHOOSE i \in slashes : \A j \in slashes : j <= i
            IN IF k = 1 THEN Some(Root) ELSE Some(SubSeq(path, 1, k - 1))

\* The directories above and including dir.
RECURSIVE Ancestors(_)
Ancestors(dir) ==
    IF IsSome(parent(dir)) /\ Unwrap(parent(dir)) /= <<>>
    THEN {dir} \cup Ancestors(Unwrap(parent(dir)))
    ELSE {dir}

\* std::fs::create_dir_all: the directory and the missing ones above it
\* exist afterwards; an error where a file is in the way.
create_dir_all(dir, d) ==
    IF \E a \in Ancestors(dir) : a \in DOMAIN d.files
    THEN Err(ErrIo("not a directory"))
    ELSE Ok([d EXCEPT !.dirs = d.dirs \cup Ancestors(dir)])

\* The file at path holds bytes.
WithFile(d, path, bytes) ==
    [d EXCEPT !.files = [p \in DOMAIN d.files \cup {path} |->
                            IF p = path THEN bytes ELSE d.files[p]]]

\* A faulty variant of File::create: the file is opened for writing and
\* keeps the bytes it held.
File_open_keeping(path, d) ==
    IF path \in d.dirs \/ ~IsSome(parent(path)) \/ Unwrap(parent(path)) \notin d.dirs
    THEN Err(ErrIo("cannot create"))
    ELSE Ok(IF path \in DOMAIN d.files THEN d ELSE WithFile(d, path, <<>>))

\* File::create: the file exists and is empty afterwards, whatever it held;
\* an error where the path is a directory or its parent is none.
File_create(path, d) ==
    IF path \in d.dirs \/ ~IsSome(parent(path)) \/ Unwrap(parent(path)) \notin d.dirs
    THEN Err(ErrIo("cannot create"))
    ELSE Ok(WithFile(d, path, <<>>))

\* file.write_all(chunk) at position pos of the open file: the chunk
\* replaces the bytes from pos on and the file grows as needed.
write_all(d, path, pos, chunk) ==
    LET old == d.files[path]
        end == pos + Len(chunk)
    IN WithFile(d, path,
                SubSeq(old, 1, Min(pos, Len(old))) \o chunk
                  \o (IF Len(old) > end THEN SubSeq(old, end + 1, Len(old)) ELSE <<>>))

\* A faulty variant of the loop: every chunk is written at the start of
\* the file.
WriteChunksAtStart(d, path, pos, chunks) == IF chunks = <<>> THEN d ELSE WithFile(d, path, chunks[Len(chunks)] \o SubSeq(d.files[path], Len(chunks[Len(chunks)]) + 1, Len(d.files[path])))

\* `while let Some(chunk) = stream.try_next().await? { file.write_all(&chunk) }`
\* from position pos on: the disk after the chunks are written in order.
RECURSIVE WriteChunks(_, _, _, _)
WriteChunks(d, path, pos, chunks) ==
    IF chunks = <<>> THEN d
    ELSE WriteChunks(write_all(d, path, pos, Head(chunks)), path,
                     pos + Len(Head(chunks)), Tail(chunks))

-----------------------------------------------------------------------------
(* Requests (OssRequest) *)

\* OssRequest::new(): GET, no bucket, no object, no query, no header, empty body.
NewRequest ==
    [ method |-> "GET", bucket |-> <<>>, object |-> <<>>,
      uploads |-> FALSE, uploadId |-> None, partNumber |-> None,
      objectMeta |-> FALSE, append |-> FALSE, position |-> None,
      maxParts |-> None, partNumberMarker |-> None,
      maxUploads |-> None, prefix |-> None,
      copySource |-> None, callback |-> FALSE, range |-> None,
      tagging |-> FALSE, versionId |-> None, taggingHeader |-> None, xml |-> None,
      body |-> BodyEmpty, manifest |-> <<>> ]

-----------------------------------------------------------------------------
(* Response bodies *)

XmlBody(root, content) == [format |-> "xml", root |-> root, content |-> content]
TextBody(text) == [format |-> "text", root |-> "", content |-> text]

\* T::from_xml(&xml) for the result type whose root element is `root`.
from_xml(root, body) ==
    IF body.format = "xml" /\ body.root = root
    THEN Ok(body.content)
    ELSE Err(ErrDecode("xml"))

\* Response headers the client reads.
NoHeaders ==
    [etag |-> None, next_append_position |-> None, content_length |-> None,
     version_id |-> None, tag_count |-> None]
ETagHeader(etag) == [NoHeaders EXCEPT !.etag = Some(etag)]

Response(status, headers, body, svc) ==
    [status |-> status, headers |-> headers, body |-> body, svc |-> svc]

-----------------------------------------------------------------------------
(* The object-storage service *)

\* The one bucket that exists on the service.
TheBucket == <<"b", "k", "t">>

\* The service's page size for ListParts when the request sets no max-parts.
DefaultMaxParts == 1000
DefaultMaxUploads == 1000

PartNumbers == 1..MaxPartNumber
NoParts == [n \in PartNumbers |-> None]

CurrentService == [uploads |-> uploads, objects |-> objects, versions |-> versions]

\* The objects are a map from the keys that exist to [data, origin]: origin
\* is the session that completed into the object, 0 for a put or an append.
NoObjects == [k \in {} |-> 0]

\* The versioned bucket, and its state: per key that was ever put, the
\* sequence of its versions [data, tags]; version n has the version id n
\* and the last one is the current version.
\* The Client as its constructor leaves it: its configuration, and no
\* record of any multipart session.
NewClient == [config |-> "set", sessions |-> {}]

VersionedBucket == <<"b", "k", "t", "-", "1">>
NoVersions == [k \in {} |-> <<>>]
ObjectAt(objs, key) == IF key \in DOMAIN objs THEN Some(objs[key]) ELSE None
PutAt(objs, key, obj) ==
    [k \in DOMAIN objs \cup {key} |-> IF k = key THEN obj ELSE objs[k]]

\* The open session a request names, if there is one: the id was issued, the
\* session is neither completed nor aborted, and it is the request's object.
OpenSession(svc, req) ==
    IF /\ IsSome(req.uploadId)
       /\ LET id == Unwrap(req.uploadId)
          IN /\ Len(id) = 2 /\ id[1] = "u" /\ id[2] \in 1..Len(svc.uploads)
             /\ svc.uploads[id[2]].state = "open"
             /\ svc.uploads[id[2]].key = req.object
    THEN Some(Unwrap(req.uploadId)[2])
    ELSE None

ServeInitiate(svc, req) ==
    LET n == Len(svc.uploads) + 1
        session == [key |-> req.object, state |-> "open", parts |-> NoParts]
    IN Response(200, NoHeaders,
                XmlBody("InitiateMultipartUploadResult",
                        [bucket |-> req.bucket, key |-> req.object, upload_id |-> UploadIdOf(n)]),
                [svc EXCEPT !.uploads = Append(svc.uploads, session)])

\* The bytes a part request stores: its body, or for UploadPartCopy the
\* source object's bytes.
ServeUploadPart(svc, req) ==
    LET s == OpenSession(svc, req)
        pn == Unwrap(req.partNumber)
        copy == IsSome(req.copySource)
        src == IF copy THEN ObjectAt(svc.objects, Unwrap(req.copySource)) ELSE None
        bytes == IF copy THEN Unwrap(src).data ELSE WireBytes(req.body)
    IN IF s = None THEN Response(404, NoHeaders, TextBody(<<>>), svc)
       ELSE IF pn \notin PartNumbers THEN Response(400, NoHeaders, TextBody(<<>>), svc)
       ELSE IF copy /\ src = None THEN Response(404, NoHeaders, TextBody(<<>>), svc)
       ELSE Response(200, ETagHeader(ETagOf(bytes)),
                     IF copy THEN XmlBody("CopyPartResult", [etag |-> ETagOf(bytes)])
                     ELSE TextBody(<<>>),
                     [svc EXCEPT !.uploads[Unwrap(s)].parts[pn] = Some(bytes)])

\* ListParts: the uploaded parts above the marker, ascending, cut to max-parts.
ServeListParts(svc, req) ==
    LET s == OpenSession(svc, req)
    IN IF s = None THEN Response(404, NoHeaders, TextBody(<<>>), svc)
       ELSE LET parts == svc.uploads[Unwrap(s)].parts
                marker == IF IsSome(req.partNumberMarker) THEN Unwrap(req.partNumberMarker) ELSE 0
                max == IF IsSome(req.maxParts) THEN Unwrap(req.maxParts) ELSE DefaultMaxParts
                all == Ascending({n \in PartNumbers : IsSome(parts[n]) /\ n > marker})
                page == SubSeq(all, 1, Min(max, Len(all)))
            IN Response(200, NoHeaders,
                        XmlBody("ListPartsResult",
                                [ parts |-> [i \in 1..Len(page) |->
                                                [ part_number |-> page[i],
                                                  etag |-> ETagOf(Unwrap(parts[page[i]])),
                                                  size |-> Len(Unwrap(parts[page[i]])) ]],
                                  is_truncated |-> Len(page) < Len(all) ]),
                        svc)

\* The manifest names uploaded parts by their current ETag, in ascending order.
ManifestAccepted(parts, manifest) ==
    /\ Len(manifest) >= 1
    /\ \A i \in 1..Len(manifest) :
          /\ manifest[i][1] \in PartNumbers
          /\ IsSome(parts[manifest[i][1]])
          /\ manifest[i][2] = ETagOf(Unwrap(parts[manifest[i][1]]))
    /\ \A i \in 1..(Len(manifest) - 1) : manifest[i][1] < manifest[i + 1][1]

\* CompleteMultipartUpload: the object is the parts of the manifest in its
\* order; with a callback attached the reply is the callback target's body.
ServeComplete(svc, req, cb) ==
    LET s == OpenSession(svc, req)
    IN IF s = None THEN Response(404, NoHeaders, TextBody(<<>>), svc)
       ELSE LET n == Unwrap(s)
                parts == svc.uploads[n].parts
            IN IF ~ManifestAccepted(parts, req.manifest)
               THEN Response(400, NoHeaders, TextBody(<<>>), svc)
               ELSE LET data == Concat([i \in 1..Len(req.manifest) |->
                                           Unwrap(parts[req.manifest[i][1]])])
                    IN Response(200, ETagHeader(ETagOf(data)),
                                IF req.callback THEN cb
                                ELSE XmlBody("CompleteMultipartUploadResult",
                                             [key |-> req.object, etag |-> ETagOf(data)]),
                                [ uploads |-> [svc.uploads EXCEPT ![n].state = "completed",
                                                                  ![n].parts = NoParts],
                                  objects |-> PutAt(svc.objects, req.object,
                                                    [data |-> data, origin |-> n]),
                                  versions |-> svc.versions ])

ServeAbort(svc, req) ==
    LET s == OpenSession(svc, req)
    IN IF s = None THEN Response(404, NoHeaders, TextBody(<<>>), svc)
       ELSE Response(204, NoHeaders, TextBody(<<>>),
                     [svc EXCEPT !.uploads[Unwrap(s)].state = "aborted",
                                 !.uploads[Unwrap(s)].parts = NoParts])

\* key starts with prefix.
HasPrefix(key, prefix) ==
    Len(prefix) <= Len(key) /\ SubSeq(key, 1, Len(prefix)) = prefix

\* The sessions one ListMultipartUploads response shows: the open sessions
\* whose key starts with the prefix, in listing order (sessions of one key
\* by initiation), cut to the first max-uploads of them.
UploadsPage(sessions, prefix, maxUploads) ==
    LET matching == Ascending({n \in 1..Len(sessions) :
                                  /\ sessions[n].state = "open"
                                  /\ IsSome(prefix) => HasPrefix(sessions[n].key, Unwrap(prefix))})
        max == IF IsSome(maxUploads) THEN Unwrap(maxUploads) ELSE DefaultMaxUploads
    IN SubSeq(matching, 1, Min(max, Len(matching)))

ServeListUploads(svc, req) ==
    LET page == UploadsPage(svc.uploads, req.prefix, req.maxUploads)
    IN Response(200, NoHeaders,
                XmlBody("ListMultipartUploadsResult",
                        [uploads |-> {[key |-> svc.uploads[page[i]].key,
                                       upload_id |-> UploadIdOf(page[i])] :
                                         i \in 1..Len(page)}]),
                svc)

ServeHeadMeta(svc, req) ==
    IF IsSome(ObjectAt(svc.objects, req.object))
    THEN Response(200, ETagHeader(ETagOf(Unwrap(ObjectAt(svc.objects, req.object)).data)),
                  TextBody(<<>>), svc)
    ELSE Response(404, NoHeaders, TextBody(<<>>), svc)

ServePutObject(svc, req, cb) ==
    Response(200, ETagHeader(ETagOf(WireBytes(req.body))),
             IF req.callback THEN cb ELSE TextBody(<<>>),
             [svc EXCEPT !.objects =
                 PutAt(svc.objects, req.object, [data |-> WireBytes(req.body), origin |-> 0])])

\* AppendObject: the position must be the object's current length.
ServeAppendObject(svc, req) ==
    LET old == IF IsSome(ObjectAt(svc.objects, req.object))
               THEN Unwrap(ObjectAt(svc.objects, req.object)).data ELSE <<>>
        new == old \o WireBytes(req.body)
    IN IF Unwrap(req.position) /= Len(old)
       THEN Response(409, NoHeaders, TextBody(<<>>), svc)
       ELSE Response(200, [NoHeaders EXCEPT !.etag = Some(ETagOf(new)),
                                            !.next_append_position = Some(Len(new))],
                     TextBody(<<>>),
                     [svc EXCEPT !.objects = PutAt(svc.objects, req.object,
                                                   [data |-> new, origin |-> 0])])

\* HeadObject: the object's ETag and its length in bytes.
ServeHeadObject(svc, req) ==
    IF IsSome(ObjectAt(svc.objects, req.object))
    THEN Response(200,
                  [NoHeaders EXCEPT
                     !.etag = Some(ETagOf(Unwrap(ObjectAt(svc.objects, req.object)).data)),
                     !.content_length =
                         Some(Len(Unwrap(ObjectAt(svc.objects, req.object)).data))],
                  TextBody(<<>>), svc)
    ELSE Response(404, NoHeaders, TextBody(<<>>), svc)

\* A faulty variant of DeleteObject: every object whose key starts with the
\* key named goes with it.
ServeDeleteObjectsUnder(svc, req) == Response(204, NoHeaders, TextBody(<<>>), [svc EXCEPT !.objects = [k \in {x \in DOMAIN svc.objects : ~HasPrefix(x, req.object)} |-> svc.objects[k]]])

\* DeleteObject: the object is gone afterwards, whether it existed or not.
ServeDeleteObject(svc, req) ==
    Response(204, NoHeaders, TextBody(<<>>),
             [svc EXCEPT !.objects =
                 [k \in DOMAIN svc.objects \ {req.object} |-> svc.objects[k]]])

\* The value of a decimal digit, and of a string of them.
DigitOf(c) ==
    CASE c = "0" -> 0 [] c = "1" -> 1 [] c = "2" -> 2 [] c = "3" -> 3 [] c = "4" -> 4
      [] c = "5" -> 5 [] c = "6" -> 6 [] c = "7" -> 7 [] c = "8" -> 8 [] c = "9" -> 9
      [] OTHER -> -1

IsDecimal(s) == \A i \in 1..Len(s) : DigitOf(s[i]) >= 0

RECURSIVE Decimal(_)
Decimal(s) ==
    IF s = <<>> THEN 0
    ELSE 10 * Decimal(SubSeq(s, 1, Len(s) - 1)) + DigitOf(s[Len(s)])

\* The Range header "bytes=first-last", "bytes=first-" or "bytes=-count":
\* the positions [from, to] (counted from 0, both inclusive) it selects of
\* an object of `size` bytes; none when the header is not of this form or
\* selects positions the object does not have.
RangeUnit == <<"b", "y", "t", "e", "s", "=">>
RangeOf(header, size) ==
    LET spec == SubSeq(header, Len(RangeUnit) + 1, Len(header))
        dashes == {i \in 1..Len(spec) : spec[i] = "-"}
        dash == CHOOSE i \in dashes : TRUE
        first == SubSeq(spec, 1, dash - 1)
        upto == SubSeq(spec, dash + 1, Len(spec))
    IN IF ~HasPrefix(header, RangeUnit) \/ Cardinality(dashes) /= 1 THEN None
       ELSE IF ~IsDecimal(first) \/ ~IsDecimal(upto) \/ (first = <<>> /\ upto = <<>>)
       THEN None
       ELSE IF first = <<>>
       THEN IF Decimal(upto) \in 1..size
            THEN Some([from |-> size - Decimal(upto), to |-> size - 1]) ELSE None
       ELSE IF upto = <<>>
       THEN IF Decimal(first) < size
            THEN Some([from |-> Decimal(first), to |-> size - 1]) ELSE None
       ELSE IF Decimal(first) <= Decimal(upto) /\ Decimal(upto) < size
            THEN Some([from |-> Decimal(first), to |-> Decimal(upto)]) ELSE None

\* GetObject: the whole object, or with a Range header the span it selects
\* (status 206); a header that selects no span of the object is ignored.
ServeGetObject(svc, req) ==
    IF ~IsSome(ObjectAt(svc.objects, req.object))
    THEN Response(404, NoHeaders, TextBody(<<>>), svc)
    ELSE LET data == Unwrap(ObjectAt(svc.objects, req.object)).data
             span == IF IsSome(req.range) THEN RangeOf(Unwrap(req.range), Len(data))
                     ELSE None
         IN IF IsSome(span)
            THEN Response(206, ETagHeader(ETagOf(data)),
                          [format |-> "bytes", root |-> "",
                           content |-> SubSeq(data, Unwrap(span).from + 1,
                                              Unwrap(span).to + 1)],
                          svc)
            ELSE Response(200, ETagHeader(ETagOf(data)),
                          [format |-> "bytes", root |-> "", content |-> data], svc)

\* The service's answer to a request, by method and query.
\* Tags on the wire: the <Tag><Key/><Value/></Tag> entries of a Tagging
\* document, and the k=v pairs of the x-oss-tagging header.
NoTags == [k \in {} |-> ""]
TagSet(tags) == {[Key |-> k, Value |-> tags[k]] : k \in DOMAIN tags}
TagsOf(entries) ==
    [k \in {t.Key : t \in entries} |-> (CHOOSE t \in entries : t.Key = k).Value]

VersionsAt(svc, key) == IF key \in DOMAIN svc.versions THEN svc.versions[key] ELSE <<>>

\* The version a request names: the current one when it carries no
\* versionId; 0 when the key has no such version.
VersionNamed(svc, req) ==
    IF IsSome(req.versionId)
    THEN (IF Unwrap(req.versionId) \in 1..Len(VersionsAt(svc, req.object))
          THEN Unwrap(req.versionId) ELSE 0)
    ELSE Len(VersionsAt(svc, req.object))

WithTags(svc, key, n, tags) ==
    [svc EXCEPT !.versions = PutAt(svc.versions, key,
                                   [VersionsAt(svc, key) EXCEPT ![n].tags = tags])]

ServePutVersion(svc, req) ==
    Response(200,
             [NoHeaders EXCEPT !.etag = Some(ETagOf(WireBytes(req.body))),
                               !.version_id = Some(Len(VersionsAt(svc, req.object)) + 1)],
             TextBody(<<>>),
             [svc EXCEPT !.versions =
                 PutAt(svc.versions, req.object,
                       Append(VersionsAt(svc, req.object),
                              [data |-> WireBytes(req.body),
                               tags |-> IF IsSome(req.taggingHeader)
                                        THEN TagsOf(Unwrap(req.taggingHeader))
                                        ELSE NoTags]))])

ServeHeadVersion(svc, req, n) ==
    Response(200,
             [NoHeaders EXCEPT
                !.etag = Some(ETagOf(VersionsAt(svc, req.object)[n].data)),
                !.content_length = Some(Len(VersionsAt(svc, req.object)[n].data)),
                !.version_id = Some(n),
                !.tag_count =
                    IF VersionsAt(svc, req.object)[n].tags = NoTags THEN None
                    ELSE Some(Cardinality(DOMAIN VersionsAt(svc, req.object)[n].tags))],
             TextBody(<<>>), svc)

ServeGetTagging(svc, req, n) ==
    Response(200, [NoHeaders EXCEPT !.version_id = Some(n)],
             XmlBody("Tagging", TagSet(VersionsAt(svc, req.object)[n].tags)), svc)

ServePutTagging(svc, req, n) ==
    IF IsSome(req.xml) /\ Unwrap(req.xml).format = "xml" /\ Unwrap(req.xml).root = "Tagging"
    THEN Response(200, [NoHeaders EXCEPT !.version_id = Some(n)], TextBody(<<>>),
                  WithTags(svc, req.object, n, TagsOf(Unwrap(req.xml).content)))
    ELSE Response(400, NoHeaders, TextBody(<<>>), svc)

ServeDeleteTagging(svc, req, n) ==
    Response(204, [NoHeaders EXCEPT !.version_id = Some(n)], TextBody(<<>>),
             WithTags(svc, req.object, n, NoTags))

ServeVersioned(svc, req) ==
    IF req.method = "PUT" /\ ~req.tagging THEN ServePutVersion(svc, req)
    ELSE IF VersionNamed(svc, req) = 0 THEN Response(404, NoHeaders, TextBody(<<>>), svc)
    ELSE IF req.method = "HEAD" THEN ServeHeadVersion(svc, req, VersionNamed(svc, req))
    ELSE IF req.method = "GET" /\ req.tagging
         THEN ServeGetTagging(svc, req, VersionNamed(svc, req))
    ELSE IF req.method = "PUT" /\ req.tagging
         THEN ServePutTagging(svc, req, VersionNamed(svc, req))
    ELSE IF req.method = "DELETE" /\ req.tagging
         THEN ServeDeleteTagging(svc, req, VersionNamed(svc, req))
    ELSE Response(400, NoHeaders, TextBody(<<>>), svc)

Serve(svc, req, cb) ==
    IF req.bucket = VersionedBucket THEN ServeVersioned(svc, req)
    ELSE IF req.bucket /= TheBucket THEN Response(404, NoHeaders, TextBody(<<>>), svc)
    ELSE IF req.method = "GET" /\ req.uploads THEN ServeListUploads(svc, req)
    ELSE IF req.method = "POST" /\ req.uploads THEN ServeInitiate(svc, req)
    ELSE IF req.method = "PUT" /\ IsSome(req.uploadId) /\ IsSome(req.partNumber)
         THEN ServeUploadPart(svc, req)
    ELSE IF req.method = "GET" /\ IsSome(req.uploadId) THEN ServeListParts(svc, req)
    ELSE IF req.method = "POST" /\ IsSome(req.uploadId) THEN ServeComplete(svc, req, cb)
    ELSE IF req.method = "DELETE" /\ IsSome(req.uploadId) THEN ServeAbort(svc, req)
    ELSE IF req.method = "DELETE" THEN ServeDeleteObject(svc, req)
    ELSE IF req.method = "HEAD" /\ req.objectMeta THEN ServeHeadMeta(svc, req)
    ELSE IF req.method = "HEAD" THEN ServeHeadObject(svc, req)
    ELSE IF req.method = "POST" /\ req.append THEN ServeAppendObject(svc, req)
    ELSE IF req.method = "PUT" THEN ServePutObject(svc, req, cb)
    ELSE IF req.method = "GET" THEN ServeGetObject(svc, req)
    ELSE Response(400, NoHeaders, TextBody(<<>>), svc)

-----------------------------------------------------------------------------
(* The transport (Client::do_request) *)

\* What the network and the service's front end do with one request:
\*   ok          the request is served and the response comes back
\*   unreachable the request never reaches the service
\*   lost        the request is served and the response is lost
\*   forbidden   the service refuses the request with 403
\*   garbled     the request is served and the response body arrives damaged
NetOutcomes == {"ok", "unreachable", "lost", "forbidden", "garbled"}

\* A response body that is not the XML (or text) that was sent.
Damaged == TextBody(<<"?">>)

\* One request, one response: a non-2xx status is Error::StatusError, a
\* transport failure is the transport's error.
do_request(req, net, cb) ==
    LET svc == CurrentService
        resp == Serve(svc, req, cb)
    IN CASE net = "unreachable" ->
              [result |-> Err(ErrTransport), svc |-> svc, sent |-> 1, wire |-> net]
         [] net = "forbidden" ->
              [result |-> Err(ErrStatus(403)), svc |-> svc, sent |-> 1, wire |-> net]
         [] net = "lost" ->
              [result |-> Err(ErrTransport), svc |-> resp.svc, sent |-> 1, wire |-> net]
         [] OTHER ->
              IF resp.status \in 200..299
              THEN [result |-> Ok([headers |-> resp.headers,
                                   body |-> IF net = "garbled" THEN Damaged ELSE resp.body]),
                    svc |-> resp.svc, sent |-> 1, wire |-> net]
              ELSE [result |-> Err(ErrStatus(resp.status)), svc |-> resp.svc, sent |-> 1,
                    wire |-> net]

\* A call that returns an error before any request is sent.
Local(e) == [result |-> Err(e), svc |-> CurrentService, sent |-> 0, wire |-> "unused"]

\* `let request = build(...)?; self.do_request(request).await`
Send(request, net, cb) ==
    IF request.ok THEN do_request(request.val, net, cb) ELSE Local(request.err)

\* `let x = out?; decode(x)`: an error returns at once, a response is decoded.
AndThen(out, Decode(_)) ==
    IF out.result.ok THEN [out EXCEPT !.result = Decode(out.result.val)] ELSE out

\* The reply of a callback target when no callback is attached: none.
NoReply == TextBody(<<>>)

\* The body of a response split into the chunks of a stream, each of
\* `size` bytes but the last.
RECURSIVE Chunks(_, _)
Chunks(bytes, size) ==
    IF bytes = <<>> THEN <<>>
    ELSE IF Len(bytes) <= size THEN <<bytes>>
    ELSE <<SubSeq(bytes, 1, size)>> \o Chunks(SubSeq(bytes, size + 1, Len(bytes)), size)

\* The stream of a response body: its chunks, and whether the connection
\* breaks after the first of them, so that the next try_next fails.
StreamOf(all, net) ==
    [chunks |-> IF net = "cut" THEN SubSeq(all, 1, Min(1, Len(all))) ELSE all,
     broken |-> net = "cut"]

\* The outcome of a request with its body turned into a stream.
AsStream(out, net, size) ==
    IF out.result.ok
    THEN [out EXCEPT
            !.wire = net,
            !.result = Ok([headers |-> out.result.val.headers,
                           stream |-> StreamOf(Chunks(out.result.val.body.content, size),
                                               net)])]
    ELSE [out EXCEPT !.wire = net]

\* do_request::<ByteStream>: the response's headers and its body as a
\* stream of chunks.  With the network outcome "cut" the response starts
\* and the connection breaks after the first chunk.
do_request_stream(req, net, size) ==
    AsStream(do_request(req, IF net = "cut" THEN "ok" ELSE net, NoReply), net, size)

-----------------------------------------------------------------------------
(* Request builders (multipart_common, object_common) *)

\* The checks every builder makes on the bucket name and the object key.
NameError(bucket_name, object_key) ==
    IF ~validate_bucket_name(bucket_name) THEN Some(ErrOther("invalid bucket name"))
    ELSE IF ~validate_object_key(object_key) THEN Some(ErrOther("invalid object key"))
    ELSE None

\* The checks of a builder whose request names an upload id.
SessionNameError(bucket_name, object_key, upload_id) ==
    IF IsSome(NameError(bucket_name, object_key)) THEN NameError(bucket_name, object_key)
    ELSE IF Len(upload_id) = 0 THEN Some(ErrOther("invalid upload id"))
    ELSE None

build_list_multipart_uploads_request(bucket_name, options) ==
    IF ~validate_bucket_name(bucket_name) THEN Err(ErrOther("invalid bucket name"))
    ELSE Ok([NewRequest EXCEPT
               !.method = "GET", !.bucket = bucket_name, !.uploads = TRUE,
               !.maxUploads = IF IsSome(options) THEN Unwrap(options).max_uploads ELSE None,
               !.prefix = IF IsSome(options) THEN Unwrap(options).prefix ELSE None])

build_list_parts_request(bucket_name, object_key, upload_id, options) ==
    LET e == SessionNameError(bucket_name, object_key, upload_id)
    IN IF IsSome(e) THEN Err(Unwrap(e))
       ELSE Ok([NewRequest EXCEPT
                  !.method = "GET", !.bucket = bucket_name, !.object = object_key,
                  !.uploadId = Some(upload_id),
                  !.maxParts = IF IsSome(options) THEN Unwrap(options).max_parts ELSE None,
                  !.partNumberMarker =
                      IF IsSome(options) THEN Unwrap(options).part_number_marker ELSE None])

build_initiate_multipart_uploads_request(bucket_name, object_key, options) ==
    LET e == NameError(bucket_name, object_key)
    IN IF IsSome(e) THEN Err(Unwrap(e))
       ELSE Ok([NewRequest EXCEPT
                  !.method = "POST", !.bucket = bucket_name, !.object = object_key,
                  !.uploads = TRUE])

build_upload_part_request(bucket_name, object_key, body, params) ==
    LET e == SessionNameError(bucket_name, object_key, params.upload_id)
    IN IF IsSome(e) THEN Err(Unwrap(e))
       ELSE Ok([NewRequest EXCEPT
                  !.method = "PUT", !.bucket = bucket_name, !.object = object_key,
                  !.partNumber = Some(params.part_number),
                  !.uploadId = Some(params.upload_id),
                  !.body = body])

build_upload_part_copy_request(bucket_name, object_key, data, options) ==
    LET e == SessionNameError(bucket_name, object_key, data.upload_id)
    IN IF IsSome(e) THEN Err(Unwrap(e))
       ELSE IF ~validate_object_key(data.source_object_key)
       THEN Err(ErrOther("invalid object key"))
       ELSE Ok([NewRequest EXCEPT
                  !.method = "PUT", !.bucket = bucket_name, !.object = object_key,
                  !.partNumber = Some(data.part_number),
                  !.uploadId = Some(data.upload_id),
                  !.copySource = Some(data.source_object_key)])

build_complete_multipart_uploads_request(bucket_name, object_key, data, options) ==
    LET e == SessionNameError(bucket_name, object_key, data.upload_id)
    IN IF IsSome(e) THEN Err(Unwrap(e))
       ELSE Ok([NewRequest EXCEPT
                  !.method = "POST", !.bucket = bucket_name, !.object = object_key,
                  !.uploadId = Some(data.upload_id),
                  !.manifest = data.parts,
                  !.callback = IsSome(options) /\ IsSome(Unwrap(options).callback)])

build_put_object_request(bucket_name, object_key, body, options) ==
    LET e == NameError(bucket_name, object_key)
    IN IF IsSome(e) THEN Err(Unwrap(e))
       ELSE Ok([NewRequest EXCEPT
                  !.method = "PUT", !.bucket = bucket_name, !.object = object_key,
                  !.body = body,
                  !.taggingHeader = IF IsSome(options) /\ "tags" \in DOMAIN Unwrap(options)
                                       /\ Unwrap(options).tags /= NoTags
                                    THEN Some(TagSet(Unwrap(options).tags)) ELSE None,
                  !.callback = IsSome(options) /\ IsSome(Unwrap(options).callback)])

\* The version id an options value names, if any.
VersionOf(options) == IF IsSome(options) THEN Unwrap(options).version_id ELSE None

\* HEAD of an object.
build_head_object_request(bucket_name, object_key, options) ==
    LET e == NameError(bucket_name, object_key)
    IN IF IsSome(e) THEN Err(Unwrap(e))
       ELSE Ok([NewRequest EXCEPT
                  !.method = "HEAD", !.bucket = bucket_name, !.object = object_key,
                  !.versionId = VersionOf(options)])

build_get_object_tag_request(bucket_name, object_key, options) ==
    LET e == NameError(bucket_name, object_key)
    IN IF IsSome(e) THEN Err(Unwrap(e))
       ELSE Ok([NewRequest EXCEPT
                  !.method = "GET", !.bucket = bucket_name, !.object = object_key,
                  !.tagging = TRUE, !.versionId = VersionOf(options)])

build_put_object_tag_request_for_current(bucket_name, object_key, tags, options) == Ok([NewRequest EXCEPT !.method = "PUT", !.bucket = bucket_name, !.object = object_key, !.tagging = TRUE, !.xml = Some(XmlBody("Tagging", TagSet(tags)))])

build_put_object_tag_request(bucket_name, object_key, tags, options) ==
    LET e == NameError(bucket_name, object_key)
    IN IF IsSome(e) THEN Err(Unwrap(e))
       ELSE Ok([NewRequest EXCEPT
                  !.method = "PUT", !.bucket = bucket_name, !.object = object_key,
                  !.tagging = TRUE, !.versionId = VersionOf(options),
                  !.xml = Some(XmlBody("Tagging", TagSet(tags)))])

build_delete_object_tag_request(bucket_name, object_key, options) ==
    LET e == NameError(bucket_name, object_key)
    IN IF IsSome(e) THEN Err(Unwrap(e))
       ELSE Ok([NewRequest EXCEPT
                  !.method = "DELETE", !.bucket = bucket_name, !.object = object_key,
                  !.tagging = TRUE, !.versionId = VersionOf(options)])

parse_tags_from_xml(xml) ==
    IF from_xml("Tagging", xml).ok THEN Ok(TagsOf(from_xml("Tagging", xml).val))
    ELSE Err(from_xml("Tagging", xml).err)

\* GET of an object; the Range header is the option's range, as given.
build_get_object_request(bucket_name, object_key, options) ==
    LET e == NameError(bucket_name, object_key)
    IN IF IsSome(e) THEN Err(Unwrap(e))
       ELSE Ok([NewRequest EXCEPT
                  !.method = "GET", !.bucket = bucket_name, !.object = object_key,
                  !.range = IF IsSome(options) THEN Unwrap(options).range ELSE None])

-----------------------------------------------------------------------------
(* MultipartUploadsOperations for Client (src/multipart.rs) *)
(* Every operation yields [result, svc, sent]: what it returns, the        *)
(* service afterwards, and the number of requests it sent.  `net` is what  *)
(* the network does with the request, `cb` the callback target's reply.    *)

\* A faulty variant of the conversion: the ETag header is not read and the
\* result carries the ETag of no data.
UploadPartResultWithoutETag(response) == Ok([etag |-> ETagOf(<<>>)])

\* impl From<HeaderMap> for UploadPartResult
UploadPartResultFrom(response) == Ok([etag |-> Unwrap(response.headers.etag)])

\* A faulty variant of list_multipart_uploads: the options are not passed
\* on.
list_multipart_uploads_without_options(bucket_name, options, net) ==
    IF ~validate_bucket_name(bucket_name) THEN Local(ErrOther("invalid bucket name"))
    ELSE AndThen(Send(build_list_multipart_uploads_request(bucket_name, None), net, NoReply),
                 LAMBDA r : from_xml("ListMultipartUploadsResult", r.body))

list_multipart_uploads(bucket_name, options, net) ==
    IF ~validate_bucket_name(bucket_name) THEN Local(ErrOther("invalid bucket name"))
    ELSE AndThen(Send(build_list_multipart_uploads_request(bucket_name, options), net, NoReply),
                 LAMBDA r : from_xml("ListMultipartUploadsResult", r.body))

\* A faulty variant of list_parts: the options are not passed on.
list_parts_without_options(bucket_name, object_key, upload_id, options, net) ==
    AndThen(Send(build_list_parts_request(bucket_name, object_key, upload_id, None),
                 net, NoReply),
            LAMBDA r : from_xml("ListPartsResult", r.body))

list_parts(bucket_name, object_key, upload_id, options, net) ==
    AndThen(Send(build_list_parts_request(bucket_name, object_key, upload_id, options),
                 net, NoReply),
            LAMBDA r : from_xml("ListPartsResult", r.body))

\* A faulty variant of initiate_multipart_uploads: the response is decoded
\* as the result of another operation.
initiate_multipart_uploads_decoding_other(bucket_name, object_key, options, net) ==
    AndThen(Send(build_initiate_multipart_uploads_request(bucket_name, object_key, options),
                 net, NoReply),
            LAMBDA r : from_xml("CompleteMultipartUploadResult", r.body))

initiate_multipart_uploads(bucket_name, object_key, options, net) ==
    AndThen(Send(build_initiate_multipart_uploads_request(bucket_name, object_key, options),
                 net, NoReply),
            LAMBDA r : from_xml("InitiateMultipartUploadResult", r.body))

\* A faulty variant of upload_part_from_file: the byte range is dropped and the
\* whole file is sent.
upload_part_from_file_without_range(bucket_name, object_key, range, params, net) ==
    AndThen(Send(build_upload_part_request(bucket_name, object_key, BodyFile(None), params),
                 net, NoReply),
            UploadPartResultFrom)

\* A faulty variant of upload_part_from_file: a request that did not reach
\* the service is sent a second time.
upload_part_from_file_retrying(bucket_name, object_key, range, params, net) ==
    LET request == build_upload_part_request(bucket_name, object_key,
                                             BodyFile(Some(range)), params)
    IN AndThen(IF request.ok /\ net = "unreachable"
               THEN [Send(request, "ok", NoReply) EXCEPT !.sent = 2]
               ELSE Send(request, net, NoReply),
               UploadPartResultFrom)

upload_part_from_file(bucket_name, object_key, range, params, net) ==
    AndThen(Send(build_upload_part_request(bucket_name, object_key,
                                           BodyFile(Some(range)), params),
                 net, NoReply),
            UploadPartResultFrom)

\* A faulty variant of upload_part_from_buffer: the buffer is not attached.
upload_part_from_buffer_without_body(bucket_name, object_key, buffer, params, net) ==
    AndThen(Send(build_upload_part_request(bucket_name, object_key, BodyEmpty, params),
                 net, NoReply),
            UploadPartResultFrom)

\* A faulty variant of upload_part_from_buffer: when the request does not
\* reach the service, the session is aborted before the error is returned.
upload_part_from_buffer_aborting_on_error(bucket_name, object_key, buffer, params, net) ==
    LET request == build_upload_part_request(bucket_name, object_key,
                                             BodyBytes(buffer), params)
    IN IF request.ok /\ net = "unreachable"
       THEN [do_request([NewRequest EXCEPT
                            !.method = "DELETE", !.bucket = bucket_name,
                            !.object = object_key, !.uploadId = Some(params.upload_id)],
                        "ok", NoReply)
             EXCEPT !.result = Err(ErrTransport), !.sent = 2, !.wire = net]
       ELSE AndThen(Send(request, net, NoReply), UploadPartResultFrom)

\* A faulty variant of upload_part_from_buffer: the part number of the
\* parameters is not used, every buffer goes to part 1.
upload_part_from_buffer_as_first_part(bucket_name, object_key, buffer, params, net) ==
    AndThen(Send(build_upload_part_request(bucket_name, object_key, BodyBytes(buffer),
                                           [params EXCEPT !.part_number = 1]),
                 net, NoReply),
            UploadPartResultFrom)

upload_part_from_buffer(bucket_name, object_key, buffer, params, net) ==
    AndThen(Send(build_upload_part_request(bucket_name, object_key,
                                           BodyBytes(buffer), params),
                 net, NoReply),
            UploadPartResultFrom)

upload_part_from_base64(bucket_name, object_key, base64_string, params, net) ==
    LET data == Base64Decode(base64_string)
    IN IF ~data.ok THEN Local(data.err)
       ELSE upload_part_from_buffer(bucket_name, object_key, data.val, params, net)

upload_part_copy(bucket_name, dest_object_key, data, options, net) ==
    AndThen(Send(build_upload_part_copy_request(bucket_name, dest_object_key, data, options),
                 net, NoReply),
            LAMBDA r : from_xml("CopyPartResult", r.body))

\* A faulty variant of complete_multipart_uploads: any options count as a
\* callback.
complete_multipart_uploads_callback_on_options(bucket_name, object_key, data, options, net, cb) ==
    LET with_callback == IsSome(options)
        api(r) == LET parsed == from_xml("CompleteMultipartUploadResult", r.body)
                  IN IF parsed.ok
                     THEN Ok([variant |-> "ApiResponse", content |-> parsed.val])
                     ELSE parsed
    IN AndThen(Send(build_complete_multipart_uploads_request(bucket_name, object_key,
                                                             data, options),
                    net, cb),
               LAMBDA r : IF with_callback
                          THEN Ok([variant |-> "CallbackResponse", content |-> r.body])
                          ELSE api(r))

\* A faulty variant of complete_multipart_uploads: the body is parsed as
\* the completion XML first, and returned as a callback response only if
\* that fails.
complete_multipart_uploads_parsing_first(bucket_name, object_key, data, options, net, cb) ==
    AndThen(Send(build_complete_multipart_uploads_request(bucket_name, object_key,
                                                          data, options),
                 net, cb),
            LAMBDA r : IF from_xml("CompleteMultipartUploadResult", r.body).ok
                       THEN Ok([variant |-> "ApiResponse",
                                content |-> from_xml("CompleteMultipartUploadResult",
                                                     r.body).val])
                       ELSE Ok([variant |-> "CallbackResponse", content |-> r.body]))

\* A faulty variant of complete_multipart_uploads: only the first entry of
\* the caller's manifest is sent.
complete_multipart_uploads_first_part_only(bucket_name, object_key, data, options, net, cb) ==
    LET with_callback == IF IsSome(options) THEN IsSome(Unwrap(options).callback) ELSE FALSE
        api(r) == LET parsed == from_xml("CompleteMultipartUploadResult", r.body)
                  IN IF parsed.ok
                     THEN Ok([variant |-> "ApiResponse", content |-> parsed.val])
                     ELSE parsed
    IN AndThen(Send(build_complete_multipart_uploads_request(
                        bucket_name, object_key,
                        [data EXCEPT !.parts = SubSeq(data.parts, 1, Min(1, Len(data.parts)))],
                        options),
                    net, cb),
               LAMBDA r : IF with_callback
                          THEN Ok([variant |-> "CallbackResponse", content |-> r.body])
                          ELSE api(r))

complete_multipart_uploads(bucket_name, object_key, data, options, net, cb) ==
    LET with_callback == IF IsSome(options) THEN IsSome(Unwrap(options).callback) ELSE FALSE
        api(r) == LET parsed == from_xml("CompleteMultipartUploadResult", r.body)
                  IN IF parsed.ok
                     THEN Ok([variant |-> "ApiResponse", content |-> parsed.val])
                     ELSE parsed
    IN AndThen(Send(build_complete_multipart_uploads_request(bucket_name, object_key,
                                                             data, options),
                    net, cb),
               LAMBDA r : IF with_callback
                          THEN Ok([variant |-> "CallbackResponse", content |-> r.body])
                          ELSE api(r))

\* A faulty variant of abort_multipart_uploads: the object key is checked
\* before the bucket name.
abort_multipart_uploads_key_first(bucket_name, object_key, upload_id, net) ==
    IF ~validate_object_key(object_key) THEN Local(ErrOther("invalid object key"))
    ELSE IF ~validate_bucket_name(bucket_name) THEN Local(ErrOther("invalid bucket name"))
    ELSE IF Len(upload_id) = 0 THEN Local(ErrOther("invalid upload id"))
    ELSE AndThen(do_request([NewRequest EXCEPT
                                !.method = "DELETE", !.bucket = bucket_name,
                                !.object = object_key, !.uploadId = Some(upload_id)],
                            net, NoReply),
                 LAMBDA r : Ok("unit"))

\* A faulty variant of abort_multipart_uploads: the upload id is not checked.
abort_multipart_uploads_without_id_check(bucket_name, object_key, upload_id, net) ==
    IF ~validate_bucket_name(bucket_name) THEN Local(ErrOther("invalid bucket name"))
    ELSE IF ~validate_object_key(object_key) THEN Local(ErrOther("invalid object key"))
    ELSE AndThen(do_request([NewRequest EXCEPT
                                !.method = "DELETE", !.bucket = bucket_name,
                                !.object = object_key, !.uploadId = Some(upload_id)],
                            net, NoReply),
                 LAMBDA r : Ok("unit"))

\* A faulty variant of abort_multipart_uploads: the request does not carry
\* the upload id, which makes it a DeleteObject request.
abort_multipart_uploads_without_upload_id(bucket_name, object_key, upload_id, net) ==
    IF ~validate_bucket_name(bucket_name) THEN Local(ErrOther("invalid bucket name"))
    ELSE IF ~validate_object_key(object_key) THEN Local(ErrOther("invalid object key"))
    ELSE IF Len(upload_id) = 0 THEN Local(ErrOther("invalid upload id"))
    ELSE AndThen(do_request([NewRequest EXCEPT
                                !.method = "DELETE", !.bucket = bucket_name,
                                !.object = object_key],
                            net, NoReply),
                 LAMBDA r : Ok("unit"))

\* A faulty variant of abort_multipart_uploads: the service's "no such
\* upload" answer for a session that has ended is taken as success.
abort_multipart_uploads_suppressing_ended(bucket_name, object_key, upload_id, net) ==
    IF ~validate_bucket_name(bucket_name) THEN Local(ErrOther("invalid bucket name"))
    ELSE IF ~validate_object_key(object_key) THEN Local(ErrOther("invalid object key"))
    ELSE IF Len(upload_id) = 0 THEN Local(ErrOther("invalid upload id"))
    ELSE LET out == do_request([NewRequest EXCEPT
                                   !.method = "DELETE", !.bucket = bucket_name,
                                   !.object = object_key, !.uploadId = Some(upload_id)],
                               net, NoReply)
         IN IF out.result.ok \/ out.result = Err(ErrStatus(404))
            THEN [out EXCEPT !.result = Ok("unit")]
            ELSE out

\* A faulty variant of abort_multipart_uploads: the outcome of the request
\* is dropped and Ok(()) returned.
abort_multipart_uploads_ignoring_outcome(bucket_name, object_key, upload_id, net) ==
    IF ~validate_bucket_name(bucket_name) THEN Local(ErrOther("invalid bucket name"))
    ELSE IF ~validate_object_key(object_key) THEN Local(ErrOther("invalid object key"))
    ELSE IF Len(upload_id) = 0 THEN Local(ErrOther("invalid upload id"))
    ELSE [do_request([NewRequest EXCEPT
                         !.method = "DELETE", !.bucket = bucket_name,
                         !.object = object_key, !.uploadId = Some(upload_id)],
                     net, NoReply)
          EXCEPT !.result = Ok("unit")]

abort_multipart_uploads(bucket_name, object_key, upload_id, net) ==
    IF ~validate_bucket_name(bucket_name) THEN Local(ErrOther("invalid bucket name"))
    ELSE IF ~validate_object_key(object_key) THEN Local(ErrOther("invalid object key"))
    ELSE IF Len(upload_id) = 0 THEN Local(ErrOther("invalid upload id"))
    ELSE AndThen(do_request([NewRequest EXCEPT
                                !.method = "DELETE", !.bucket = bucket_name,
                                !.object = object_key, !.uploadId = Some(upload_id)],
                            net, NoReply),
                 LAMBDA r : Ok("unit"))

-----------------------------------------------------------------------------
(* ObjectOperations for Client (src/object.rs) *)

put_object_from_file(bucket_name, object_key, options, net, cb) ==
    LET key == strip_suffix(strip_prefix(object_key))
        with_callback == IF IsSome(options) THEN IsSome(Unwrap(options).callback) ELSE FALSE
    IN AndThen(Send(build_put_object_request(bucket_name, key, BodyFile(None), options),
                    net, cb),
               LAMBDA r : IF with_callback
                          THEN Ok([variant |-> "CallbackResponse", content |-> r.body])
                          ELSE Ok([variant |-> "ApiResponse",
                                   content |-> [etag |-> Unwrap(r.headers.etag),
                                                version_id |-> r.headers.version_id]]))

put_object_from_buffer(bucket_name, object_key, buffer, options, net, cb) ==
    LET key == strip_suffix(strip_prefix(object_key))
        with_callback == IF IsSome(options) THEN IsSome(Unwrap(options).callback) ELSE FALSE
    IN AndThen(Send(build_put_object_request(bucket_name, key, BodyBytes(buffer), options),
                    net, cb),
               LAMBDA r : IF with_callback
                          THEN Ok([variant |-> "CallbackResponse", content |-> r.body])
                          ELSE Ok([variant |-> "ApiResponse",
                                   content |-> [etag |-> Unwrap(r.headers.etag)]]))

\* A faulty variant of put_object_from_base64: a string that does not
\* decode is taken as no data.
put_object_from_base64_lenient(bucket_name, object_key, base64_string, options, net, cb) ==
    LET data == Base64Decode(base64_string)
    IN put_object_from_buffer(bucket_name, object_key,
                              IF data.ok THEN data.val ELSE <<>>, options, net, cb)

put_object_from_base64(bucket_name, object_key, base64_string, options, net, cb) ==
    LET data == Base64Decode(base64_string)
    IN IF ~data.ok THEN Local(ErrOther("Decoding base64 string failed"))
       ELSE put_object_from_buffer(bucket_name, object_key, data.val, options, net, cb)

\* AppendObjectResult from the response headers: x-oss-next-append-position.
AppendObjectResultFrom(response) ==
    Ok([next_append_position |-> Unwrap(response.headers.next_append_position)])

append_object_from_file(bucket_name, object_key, position, options, net) ==
    LET key == strip_suffix(strip_prefix(object_key))
        request == build_put_object_request(bucket_name, key, BodyFile(None), options)
    IN AndThen(Send(IF request.ok
                    THEN Ok([request.val EXCEPT !.method = "POST", !.append = TRUE,
                                                !.position = Some(position)])
                    ELSE request,
                    net, NoReply),
               AppendObjectResultFrom)

\* A faulty variant of append_object_from_buffer: the result repeats the
\* position of the request.
append_object_from_buffer_repeating_position(bucket_name, object_key, buffer, position, options, net) ==
    LET key == strip_suffix(strip_prefix(object_key))
        request == build_put_object_request(bucket_name, key, BodyBytes(buffer), options)
    IN AndThen(Send(IF request.ok
                    THEN Ok([request.val EXCEPT !.method = "POST", !.append = TRUE,
                                                !.position = Some(position)])
                    ELSE request,
                    net, NoReply),
               LAMBDA r : Ok([next_append_position |-> position]))

append_object_from_buffer(bucket_name, object_key, buffer, position, options, net) ==
    LET key == strip_suffix(strip_prefix(object_key))
        request == build_put_object_request(bucket_name, key, BodyBytes(buffer), options)
    IN AndThen(Send(IF request.ok
                    THEN Ok([request.val EXCEPT !.method = "POST", !.append = TRUE,
                                                !.position = Some(position)])
                    ELSE request,
                    net, NoReply),
               LAMBDA r : Ok([next_append_position |->
                                 Unwrap(r.headers.next_append_position)]))

append_object_from_base64(bucket_name, object_key, base64_string, position, options, net) ==
    LET data == Base64Decode(base64_string)
    IN IF ~data.ok THEN Local(ErrOther("Decoding base64 string failed"))
       ELSE append_object_from_buffer(bucket_name, object_key, data.val, position,
                                      options, net)

\* The outcome of a call that also leaves the caller's disk as d.
OnDisk(out, d) ==
    [result |-> out.result, svc |-> out.svc, sent |-> out.sent, wire |-> out.wire,
     disk |-> d]

\* `let mut file = File::create(&file_path).await?;` and the loop over the
\* stream: the chunks are written in order; a stream that breaks makes the
\* call an error after the chunks that came.
write_stream(out, path, d, file) ==
    IF ~file.ok THEN OnDisk([out EXCEPT !.result = Err(file.err)], d)
    ELSE OnDisk([out EXCEPT !.result = IF out.result.val.stream.broken
                                       THEN Err(ErrTransport)
                                       ELSE Ok("GetObjectResult")],
                WriteChunks(file.val, path, 0, out.result.val.stream.chunks))

\* A faulty variant of save_response: the file is created before the
\* outcome of the request is looked at.
save_response_creating_first(out, path, d) == IF ~out.result.ok THEN OnDisk(out, IF File_create(path, d).ok THEN File_create(path, d).val ELSE d) ELSE write_stream(out, path, d, File_create(path, d))

\* `let (_, mut stream) = self.do_request::<ByteStream>(request).await?;`
\* and what follows it, on the disk d the steps before have left.
save_response(out, path, d) ==
    IF ~out.result.ok THEN OnDisk(out, d)
    ELSE write_stream(out, path, d, File_create(path, d))

\* The parent directory is made if there is none, the request built and sent.
download_to(bucket_name, object_key, path, options, net, size, made) ==
    IF ~made.ok THEN OnDisk(Local(made.err), disk)
    ELSE save_response(
             IF build_get_object_request(bucket_name, object_key, options).ok
             THEN do_request_stream(
                      build_get_object_request(bucket_name, object_key, options).val,
                      net, size)
             ELSE Local(build_get_object_request(bucket_name, object_key, options).err),
             path, made.val)

\* `if let Some(parent_path) = file_path.parent() { if !parent_path.exists() {
\* create_dir_all(parent_path)?; } }`
ensure_parent(path) ==
    IF /\ IsSome(parent(path))
       /\ Unwrap(parent(path)) \notin disk.dirs
       /\ Unwrap(parent(path)) \notin DOMAIN disk.files
    THEN create_dir_all(Unwrap(parent(path)), disk)
    ELSE Ok(disk)

\* The path a call writes to: a relative file_path is canonicalized.
resolve(file_path) ==
    IF is_relative(file_path) THEN canonicalize(file_path, disk) ELSE Ok(file_path)

\* A faulty variant of get_object_to_file: the parent directory is made
\* before the path is checked.
get_object_to_file_validating_late(bucket_name, object_key, file_path, options, net, size) == IF ~resolve(file_path).ok THEN OnDisk(Local(resolve(file_path).err), disk) ELSE IF ~ensure_parent(resolve(file_path).val).ok THEN OnDisk(Local(ensure_parent(resolve(file_path).val).err), disk) ELSE IF ~validate_path(resolve(file_path).val) THEN OnDisk(Local(ErrOther("invalid file path")), ensure_parent(resolve(file_path).val).val) ELSE download_to(bucket_name, object_key, resolve(file_path).val, options, net, size, ensure_parent(resolve(file_path).val))

\* Download an object to a local file: the path is resolved and checked,
\* its parent directory made, one GET sent, the file created and the
\* chunks of the response written to it in order.
get_object_to_file(bucket_name, object_key, file_path, options, net, size) ==
    IF ~resolve(file_path).ok THEN OnDisk(Local(resolve(file_path).err), disk)
    ELSE IF ~validate_path(resolve(file_path).val)
    THEN OnDisk(Local(ErrOther("invalid file path")), disk)
    ELSE download_to(bucket_name, object_key, resolve(file_path).val, options, net, size,
                     ensure_parent(resolve(file_path).val))

\* The key of a "folder": no leading "/", and a "/" at the end.
folder_key(object_key) ==
    IF Len(strip_prefix(object_key)) >= 1
       /\ strip_prefix(object_key)[Len(strip_prefix(object_key))] = "/"
    THEN strip_prefix(object_key)
    ELSE strip_prefix(object_key) \o <<"/">>

\* Create a "folder": an empty object whose key ends with "/".
create_folder(bucket_name, object_key, net) ==
    IF ~validate_bucket_name(bucket_name) THEN Local(ErrOther("invalid bucket name"))
    ELSE AndThen(do_request([NewRequest EXCEPT
                                !.method = "PUT", !.bucket = bucket_name,
                                !.object = folder_key(object_key), !.body = BodyEmpty],
                            net, NoReply),
                 LAMBDA r : Ok("unit"))

\* Delete a "folder": one DELETE of the object whose key is the folder's.
delete_folder(bucket_name, object_key, net) ==
    IF ~validate_bucket_name(bucket_name) THEN Local(ErrOther("invalid bucket name"))
    ELSE AndThen(do_request([NewRequest EXCEPT
                                !.method = "DELETE", !.bucket = bucket_name,
                                !.object = folder_key(object_key)],
                            net, NoReply),
                 LAMBDA r : Ok("unit"))

\* ObjectMetadata::from(headers): here the content length and the ETag.
head_object(bucket_name, object_key, options, net) ==
    AndThen(Send(build_head_object_request(bucket_name, object_key, options), net, NoReply),
            LAMBDA r : Ok([content_length |-> Unwrap(r.headers.content_length),
                           etag |-> r.headers.etag,
                           tag_count |-> r.headers.tag_count]))

get_object_tags(bucket_name, object_key, options, net) ==
    AndThen(Send(build_get_object_tag_request(bucket_name, object_key, options),
                 net, NoReply),
            LAMBDA r : parse_tags_from_xml(r.body))

put_object_tags(bucket_name, object_key, tags, options, net) ==
    AndThen(Send(build_put_object_tag_request(bucket_name, object_key, tags, options),
                 net, NoReply),
            LAMBDA r : Ok("unit"))

delete_object_tags(bucket_name, object_key, options, net) ==
    AndThen(Send(build_delete_object_tag_request(bucket_name, object_key, options),
                 net, NoReply),
            LAMBDA r : Ok("unit"))

get_object_metadata(bucket_name, object_key, options, net) ==
    IF ~validate_bucket_name(bucket_name) THEN Local(ErrOther("invalid bucket name"))
    ELSE IF ~validate_object_key(object_key) THEN Local(ErrOther("invalid object key"))
    ELSE AndThen(do_request([NewRequest EXCEPT
                                !.method = "HEAD", !.bucket = bucket_name,
                                !.object = object_key, !.objectMeta = TRUE],
                            net, NoReply),
                 LAMBDA r : Ok([etag |-> r.headers.etag]))

delete_object(bucket_name, object_key, options, net) ==
    IF ~validate_bucket_name(bucket_name) THEN Local(ErrOther("invalid bucket name"))
    ELSE IF ~validate_object_key(object_key) THEN Local(ErrOther("invalid object key"))
    ELSE AndThen(do_request([NewRequest EXCEPT
                                !.method = "DELETE", !.bucket = bucket_name,
                                !.object = object_key],
                            net, NoReply),
                 LAMBDA r : Ok("DeleteObjectResult"))

\* A faulty variant of exists: every status error counts as absent.
exists_false_on_any_status(bucket_name, object_key, options, net) ==
    LET out == get_object_metadata(bucket_name, object_key, options, net)
    IN IF out.result.ok THEN [out EXCEPT !.result = Ok(TRUE)]
       ELSE IF out.result.err.kind = "StatusError"
       THEN [out EXCEPT !.result = Ok(FALSE)]
       ELSE out

\* A faulty variant of exists: any answer of the service counts as present.
exists_on_any_answer(bucket_name, object_key, options, net) ==
    LET out == get_object_metadata(bucket_name, object_key, options, net)
    IN IF out.result.ok \/ out.result.err.kind = "StatusError"
       THEN [out EXCEPT !.result = Ok(TRUE)]
       ELSE out

exists(bucket_name, object_key, options, net) ==
    LET out == get_object_metadata(bucket_name, object_key, options, net)
    IN IF out.result.ok THEN [out EXCEPT !.result = Ok(TRUE)]
       ELSE IF out.result.err.kind = "StatusError" /\ out.result.err.status = 404
       THEN [out EXCEPT !.result = Ok(FALSE)]
       ELSE out

-----------------------------------------------------------------------------
(* The state machine: a caller makes one call at a time; the call's record *)
(* stays in `last` until the caller has taken the result.                  *)

KeyA == <<"a">>
KeyB == <<"d", "/", "b">>

\* The caller's record of a session: whether a successful initiate returned
\* its id, whether a listing showed it, and for each part number the last
\* upload the service took: the source bytes, its rank among the session's
\* parts in upload order, the bytes it replaced, and the last ETag an upload
\* of the part returned.
NewCaller == [returned |-> FALSE, listed |-> FALSE, parts |-> [n \in PartNumbers |-> None]]

\* The upload ids a caller has learned: from a successful initiate or from
\* a listing.
BogusId == UploadIdOf(0)
LearnedIds ==
    {UploadIdOf(n) : n \in {m \in 1..Len(uploads) : caller[m].returned \/ caller[m].listed}}

\* The sessions a caller may name with well-formed names: those it has
\* learned, under any key, and under `key` an id the service never issues
\* and the one the service would issue next.
Targets(buckets, keys, key) ==
    {[bucket |-> b, key |-> k, upload_id |-> id] :
        b \in buckets, k \in keys, id \in LearnedIds}
    \cup {[bucket |-> b, key |-> key, upload_id |-> id] :
            b \in buckets, id \in {BogusId, UploadIdOf(Len(uploads) + 1)}}

\* The sessions a caller may name with any names: every bucket and key with
\* an empty id; every bucket with `key`, and the bucket with every key, with
\* an id the service never issues; the bucket and `key` with the ids it has
\* learned.
AnyTargets(buckets, keys, key) ==
    {[bucket |-> b, key |-> k, upload_id |-> <<>>] : b \in buckets, k \in keys}
    \cup {[bucket |-> b, key |-> key, upload_id |-> BogusId] : b \in buckets}
    \cup {[bucket |-> TheBucket, key |-> k, upload_id |-> BogusId] : k \in keys}
    \cup {[bucket |-> TheBucket, key |-> key, upload_id |-> id] : id \in LearnedIds}

\* The ETags a caller may give for part pn of session n: that of the bytes
\* it uploaded last, the last one an upload returned, and that of the bytes
\* it uploaded before; for a part it never uploaded, that of no bytes.
ETagChoices(n, pn) ==
    IF IsSome(caller[n].parts[pn])
    THEN LET rec == Unwrap(caller[n].parts[pn])
         IN {ETagOf(rec.bytes)} \cup rec.etag
            \cup (IF IsSome(rec.replaced) THEN {ETagOf(Unwrap(rec.replaced))} ELSE {})
    ELSE {ETagOf(<<>>)}

\* The manifests a caller may submit for session n: up to len (part, etag)
\* pairs, no part number twice, in any order.
RECURSIVE ManifestsUpTo(_, _)
ManifestsUpTo(n, len) ==
    IF len = 0 THEN {<<>>}
    ELSE LET shorter == ManifestsUpTo(n, len - 1)
             extended(m) ==
                 UNION {{Append(m, <<pn, etag>>) : etag \in ETagChoices(n, pn)} :
                          pn \in {p \in PartNumbers : \A i \in 1..Len(m) : m[i][1] /= p}}
         IN shorter \cup UNION {extended(m) : m \in {x \in shorter : Len(x) = len - 1}}
PartNumbersOf(manifest) == {manifest[i][1] : i \in 1..Len(manifest)}
IsAscending(manifest) ==
    \A i \in 1..(Len(manifest) - 1) : manifest[i][1] < manifest[i + 1][1]
ManifestsFor(id) ==
    IF IsIssuedId(id) THEN ManifestsUpTo(SessionOf(id), MaxPartNumber) \ {<<>>}
    ELSE {<< <<1, ETagOf(<<>>)>> >>}

Idle == [op |-> "none", args |-> <<>>, sent |-> 0, wire |-> "unused", result |-> Ok("unit")]

\* Concurrent callers: tasks that share the client (it is Sync and holds no
\* session state) and have each at most one call under way.  A call under
\* way is "called" until the service has handled its request and "served"
\* until the task has taken the result.
Tasks == {"t1", "t2"}
NotCalling ==
    [stage |-> "idle", op |-> "none", args |-> <<>>, net |-> "ok", sent |-> 0,
     result |-> Ok("unit")]

\* The caller is between calls and may make another.
Ready == last.op = "none" /\ calls < MaxCalls

\* The caller's record of session n after a call with outcome o.
CallerAfter(n, op, args, o, part, bytes) ==
    LET old == IF n <= Len(uploads) THEN caller[n] ELSE NewCaller
        took == /\ IsSome(part)
                /\ n <= Len(uploads)
                /\ \/ o.svc.uploads[n] /= uploads[n]
                   \/ o.result.ok /\ args.upload_id = UploadIdOf(n)
    IN [ returned |-> \/ old.returned
                      \/ /\ op = "initiate_multipart_uploads"
                         /\ o.result.ok
                         /\ o.result.val.upload_id = UploadIdOf(n),
         listed |-> \/ old.listed
                    \/ /\ op = "list_multipart_uploads"
                       /\ o.result.ok
                       /\ \E u \in o.result.val.uploads : u.upload_id = UploadIdOf(n),
         parts |-> IF took
                   THEN [old.parts EXCEPT ![Unwrap(part)] =
                           Some([ bytes |-> bytes,
                                  at |-> Cardinality({p \in PartNumbers : IsSome(old.parts[p])
                                                         /\ p /= Unwrap(part)}) + 1,
                                  replaced |-> IF IsSome(old.parts[Unwrap(part)])
                                               THEN Some(Unwrap(old.parts[Unwrap(part)]).bytes)
                                               ELSE None,
                                  etag |-> IF o.result.ok THEN Some(o.result.val.etag)
                                           ELSE IF IsSome(old.parts[Unwrap(part)])
                                           THEN Unwrap(old.parts[Unwrap(part)]).etag
                                           ELSE None ])]
                   ELSE old.parts ]

\* The step of one call: the service moves to out.svc, the call's record
\* goes to `last`, and the caller's history follows.  `part` and `bytes`
\* are the part number and the source bytes of an upload call.
Call(op, args, out, part, bytes) ==
    /\ calls' = calls + 1
    /\ \E o \in {out} :
        /\ uploads' = o.svc.uploads
        /\ objects' = o.svc.objects
        /\ versions' = o.svc.versions
        /\ client' = client
        /\ last' = [op |-> op, args |-> args, sent |-> o.sent, wire |-> o.wire,
                    result |-> o.result]
        /\ caller' = [n \in 1..Len(o.svc.uploads) |->
                         CallerAfter(n, op, args, o, part, bytes)]
    /\ flight' = flight
    /\ disk' = disk

Init ==
    /\ uploads = <<>>
    /\ objects = NoObjects
    /\ caller = <<>>
    /\ last = Idle
    /\ calls = 0
    /\ flight = [t \in Tasks |-> NotCalling]
    /\ disk = EmptyDisk
    /\ versions = NoVersions
    /\ client = NewClient

\* The caller takes the result of the call.
Return ==
    /\ last.op /= "none"
    /\ last' = Idle
    /\ UNCHANGED <<uploads, objects, caller, calls, flight, disk, versions, client>>

ListMultipartUploads(buckets, optionSet, nets) ==
    /\ Ready
    /\ \E bucket \in buckets, options \in optionSet, net \in nets :
        Call("list_multipart_uploads", [bucket |-> bucket, options |-> options],
             list_multipart_uploads(bucket, options, net), None, <<>>)

ListParts(targets, optionSet, nets) ==
    /\ Ready
    /\ \E t \in targets, options \in optionSet, net \in nets :
        Call("list_parts",
             [bucket |-> t.bucket, key |-> t.key, upload_id |-> t.upload_id,
              options |-> options],
             list_parts(t.bucket, t.key, t.upload_id, options, net), None, <<>>)

Initiate(buckets, keys, nets) ==
    /\ Ready
    /\ \E bucket \in buckets, key \in keys, net \in nets :
        Call("initiate_multipart_uploads", [bucket |-> bucket, key |-> key],
             initiate_multipart_uploads(bucket, key, None, net), None, <<>>)

UploadPartFromFile(targets, ranges, nets) ==
    /\ Ready
    /\ \E t \in targets, pn \in PartNumbers, range \in ranges, net \in nets :
        Call("upload_part_from_file",
             [bucket |-> t.bucket, key |-> t.key, upload_id |-> t.upload_id,
              part_number |-> pn, range |-> range],
             upload_part_from_file(t.bucket, t.key, range,
                                   [part_number |-> pn, upload_id |-> t.upload_id], net),
             Some(pn), SubSeq(FileContent, range.start + 1, range.end))

UploadPartFromBuffer(targets, buffers, nets) ==
    /\ Ready
    /\ \E t \in targets, pn \in PartNumbers, buffer \in buffers, net \in nets :
        Call("upload_part_from_buffer",
             [bucket |-> t.bucket, key |-> t.key, upload_id |-> t.upload_id,
              part_number |-> pn, buffer |-> buffer],
             upload_part_from_buffer(t.bucket, t.key, buffer,
                                     [part_number |-> pn, upload_id |-> t.upload_id], net),
             Some(pn), buffer)

UploadPartFromBase64(targets, strings, nets) ==
    /\ Ready
    /\ \E t \in targets, pn \in PartNumbers, base64_string \in strings, net \in nets :
        Call("upload_part_from_base64",
             [bucket |-> t.bucket, key |-> t.key, upload_id |-> t.upload_id,
              part_number |-> pn, base64_string |-> base64_string],
             upload_part_from_base64(t.bucket, t.key, base64_string,
                                     [part_number |-> pn, upload_id |-> t.upload_id], net),
             Some(pn),
             IF Base64Decode(base64_string).ok THEN Base64Decode(base64_string).val ELSE <<>>)

UploadPartCopy(targets, sourceKeys, nets) ==
    /\ Ready
    /\ \E t \in targets, pn \in PartNumbers, source \in sourceKeys, net \in nets :
        Call("upload_part_copy",
             [bucket |-> t.bucket, key |-> t.key, upload_id |-> t.upload_id,
              part_number |-> pn, source_object_key |-> source],
             upload_part_copy(t.bucket, t.key,
                              [part_number |-> pn, upload_id |-> t.upload_id,
                               source_object_key |-> source],
                              None, net),
             Some(pn),
             IF IsSome(ObjectAt(objects, source))
             THEN Unwrap(ObjectAt(objects, source)).data ELSE <<>>)

Complete(targets, optionSet, replies, nets) ==
    /\ Ready
    /\ \E t \in targets, options \in optionSet, net \in nets, cb \in replies :
        \E parts \in ManifestsFor(t.upload_id) :
            Call("complete_multipart_uploads",
                 [bucket |-> t.bucket, key |-> t.key, upload_id |-> t.upload_id,
                  parts |-> parts, options |-> options, reply |-> cb],
                 complete_multipart_uploads(t.bucket, t.key,
                                            [upload_id |-> t.upload_id, parts |-> parts],
                                            options, net, cb),
                 None, <<>>)

Abort(targets, nets) ==
    /\ Ready
    /\ \E t \in targets, net \in nets :
        Call("abort_multipart_uploads",
             [bucket |-> t.bucket, key |-> t.key, upload_id |-> t.upload_id],
             abort_multipart_uploads(t.bucket, t.key, t.upload_id, net), None, <<>>)

Exists(buckets, keys, nets) ==
    /\ Ready
    /\ \E bucket \in buckets, key \in keys, net \in nets :
        Call("exists", [bucket |-> bucket, key |-> key],
             exists(bucket, key, None, net), None, <<>>)

PutObjectFromBuffer(buckets, keys, buffers, optionSet, replies, nets) ==
    /\ Ready
    /\ \E bucket \in buckets, key \in keys, buffer \in buffers, options \in optionSet,
          net \in nets, cb \in replies :
        Call("put_object_from_buffer",
             [bucket |-> bucket, key |-> key, buffer |-> buffer, options |-> options,
              reply |-> cb],
             put_object_from_buffer(bucket, key, buffer, options, net, cb), None, <<>>)

PutObjectFromBase64(buckets, keys, strings, optionSet, replies, nets) ==
    /\ Ready
    /\ \E bucket \in buckets, key \in keys, base64_string \in strings,
          options \in optionSet, net \in nets, cb \in replies :
        Call("put_object_from_base64",
             [bucket |-> bucket, key |-> key, base64_string |-> base64_string,
              options |-> options, reply |-> cb],
             put_object_from_base64(bucket, key, base64_string, options, net, cb),
             None, <<>>)

AppendObjectFromBase64(buckets, keys, strings, positions, nets) ==
    /\ Ready
    /\ \E bucket \in buckets, key \in keys, base64_string \in strings,
          position \in positions, net \in nets :
        Call("append_object_from_base64",
             [bucket |-> bucket, key |-> key, base64_string |-> base64_string,
              position |-> position],
             append_object_from_base64(bucket, key, base64_string, position, None, net),
             None, <<>>)

-----------------------------------------------------------------------------
(* The multipart protocol: well-formed names, two payloads *)

ProtocolKeys == {KeyA, KeyB}
ProtocolTargets == Targets({TheBucket}, ProtocolKeys, KeyA)
\* The first byte of the file, and a buffer with another byte.
FileRanges == {[start |-> 0, end |-> 1]}
Buffers == {<<2>>}
ListPartsOptionSet ==
    {None} \cup {Some([max_parts |-> Some(1), part_number_marker |-> None]),
                 Some([max_parts |-> None, part_number_marker |-> Some(1)])}
\* No options, a page of one session, the sessions under the folder "d/".
ListUploadsOptionSet ==
    {None} \cup {Some([max_uploads |-> Some(1), prefix |-> None]),
                 Some([max_uploads |-> None, prefix |-> Some(<<"d", "/">>)])}
\* A request is answered, does not reach the service, or is handled by the
\* service with the response lost.
ProtocolNets == {"ok", "unreachable", "lost"}
\* The response to an initiate may also arrive with a damaged body.
InitiateNets == ProtocolNets \cup {"garbled"}

Next ==
    \/ Return
    \/ ListMultipartUploads({TheBucket}, ListUploadsOptionSet, ProtocolNets)
    \/ ListParts(ProtocolTargets, ListPartsOptionSet, ProtocolNets)
    \/ Initiate({TheBucket}, {KeyA}, InitiateNets)
    \/ UploadPartFromFile(ProtocolTargets, FileRanges, ProtocolNets)
    \/ UploadPartFromBuffer(ProtocolTargets, Buffers, ProtocolNets)
    \/ UploadPartCopy(ProtocolTargets, {KeyA}, ProtocolNets)
    \/ Complete(ProtocolTargets, {None}, {NoReply}, ProtocolNets)
    \/ Abort(ProtocolTargets, ProtocolNets)
    \/ Exists({TheBucket}, ProtocolKeys, ProtocolNets)
    \/ PutObjectFromBuffer({TheBucket}, {KeyA}, Buffers, {None}, {NoReply}, ProtocolNets)

Spec == Init /\ [][Next]_vars

-----------------------------------------------------------------------------
(* Argument checking and decoding: every kind of name, one payload *)

\* Bucket names: the bucket, an empty name, a malformed name, and a
\* well-formed name of no bucket.
CallBuckets == {TheBucket, <<>>, <<"-", "b">>, <<"b", "1">>}
\* Object keys: a key, an empty key, a key that starts with '/'.
CallKeys == {KeyA, <<>>, <<"/", "a">>}
CallTargets == AnyTargets(CallBuckets, CallKeys, KeyA)
CallOptions == {None, Some([callback |-> None]), Some([callback |-> Some("cb")])}
\* What the callback target may answer: text, or the completion XML.
CallReplies ==
    {TextBody(<<"o", "k">>),
     XmlBody("CompleteMultipartUploadResult", [key |-> KeyA, etag |-> ETagOf(<<>>)])}
\* base64 strings: "AQ==", "AQI=", then strings that are not base64:
\* "AQ=", "AQ", "A*==", "AR==", "=AQ=", "AQ==AQ==".
GoodBase64 == {<<"A", "Q", "=", "=">>, <<"A", "Q", "I", "=">>}
BadBase64 ==
    { <<"A", "Q", "=">>, <<"A", "Q">>, <<"A", "*", "=", "=">>, <<"A", "R", "=", "=">>,
      <<"=", "A", "Q", "=">>, <<"A", "Q", "=", "=", "A", "Q", "=", "=">> }

\* A request is answered, or refused with status 403.
CallNets == {"ok", "forbidden"}
\* A completion's response may also arrive with a body that is not the
\* XML (or the callback reply) that was sent.
CompleteNets == CallNets \cup {"garbled"}

NextCalls ==
    \/ Return
    \/ ListMultipartUploads(CallBuckets, {None}, CallNets)
    \/ ListParts(CallTargets, {None}, CallNets)
    \/ Initiate(CallBuckets, CallKeys, CallNets)
    \/ UploadPartFromFile(CallTargets, {[start |-> 0, end |-> 1]}, CallNets)
    \/ UploadPartFromBuffer(CallTargets, {<<1>>}, CallNets)
    \/ UploadPartFromBase64(AnyTargets({TheBucket, <<>>}, {KeyA}, KeyA),
                            GoodBase64 \cup BadBase64, CallNets)
    \/ UploadPartCopy(CallTargets, {KeyA}, CallNets)
    \/ Complete(CallTargets, CallOptions, CallReplies, CompleteNets)
    \/ Abort(CallTargets, CallNets)
    \/ Exists(CallBuckets, CallKeys, NetOutcomes)
    \/ PutObjectFromBase64({TheBucket, <<>>}, {KeyA}, GoodBase64 \cup BadBase64,
                           {None}, {NoReply}, CallNets)
    \/ AppendObjectFromBase64({TheBucket, <<>>}, {KeyA}, GoodBase64 \cup BadBase64,
                              {0, 1}, CallNets)

SpecCalls == Init /\ [][NextCalls]_vars

-----------------------------------------------------------------------------
(* Concurrent callers: calls on one session that overlap in time.  Every   *)
(* operation sends at most one request and the client keeps nothing        *)
(* between calls, so a call under way is its arguments, then the instant   *)
(* the service handles its request, then its result on the way back.       *)

UploadOps ==
    {"upload_part_from_file", "upload_part_from_buffer", "upload_part_from_base64",
     "upload_part_copy"}

\* The sessions the tasks share: those whose id the caller has learned.
SharedTargets == {t \in Targets({TheBucket}, {KeyA}, KeyA) : t.upload_id \in LearnedIds}

\* The part numbers the tasks upload: two, so that calls on the same and on
\* different part numbers both happen.
RacedParts == {pn \in PartNumbers : pn <= 2}

\* The calls a task may start: op and arguments.
ConcurrentCalls ==
    UNION {
      {[op |-> "upload_part_from_file",
        args |-> [bucket |-> t.bucket, key |-> t.key, upload_id |-> t.upload_id,
                  part_number |-> pn, range |-> range]] :
          pn \in RacedParts, range \in FileRanges}
      \cup {[op |-> "upload_part_from_buffer",
             args |-> [bucket |-> t.bucket, key |-> t.key, upload_id |-> t.upload_id,
                       part_number |-> pn, buffer |-> buffer]] :
               pn \in RacedParts, buffer \in Buffers}
      \cup {[op |-> "upload_part_copy",
             args |-> [bucket |-> t.bucket, key |-> t.key, upload_id |-> t.upload_id,
                       part_number |-> pn, source_object_key |-> KeyB]] :
               pn \in RacedParts}
      \cup {[op |-> "complete_multipart_uploads",
             args |-> [bucket |-> t.bucket, key |-> t.key, upload_id |-> t.upload_id,
                       parts |-> parts, options |-> None, reply |-> NoReply]] :
               parts \in {m \in ManifestsFor(t.upload_id) : IsAscending(m)}}
      \cup {[op |-> "abort_multipart_uploads",
             args |-> [bucket |-> t.bucket, key |-> t.key, upload_id |-> t.upload_id]]}
      : t \in SharedTargets }

\* What the call c does when its request is handled now.
OutcomeOf(c) ==
    CASE c.op = "upload_part_from_file" ->
           upload_part_from_file(c.args.bucket, c.args.key, c.args.range,
                                 [part_number |-> c.args.part_number,
                                  upload_id |-> c.args.upload_id], c.net)
      [] c.op = "upload_part_from_buffer" ->
           upload_part_from_buffer(c.args.bucket, c.args.key, c.args.buffer,
                                   [part_number |-> c.args.part_number,
                                    upload_id |-> c.args.upload_id], c.net)
      [] c.op = "upload_part_copy" ->
           upload_part_copy(c.args.bucket, c.args.key,
                            [part_number |-> c.args.part_number,
                             upload_id |-> c.args.upload_id,
                             source_object_key |-> c.args.source_object_key],
                            None, c.net)
      [] c.op = "complete_multipart_uploads" ->
           complete_multipart_uploads(c.args.bucket, c.args.key,
                                      [upload_id |-> c.args.upload_id,
                                       parts |-> c.args.parts],
                                      c.args.options, c.net, c.args.reply)
      [] OTHER ->
           abort_multipart_uploads(c.args.bucket, c.args.key, c.args.upload_id, c.net)

\* The part number and the source bytes of an upload call.
PartOf(c) == IF c.op \in UploadOps THEN Some(c.args.part_number) ELSE None
BytesIn(c, objs) ==
    CASE c.op = "upload_part_from_file" ->
           SubSeq(FileContent, c.args.range.start + 1, c.args.range.end)
      [] c.op = "upload_part_from_buffer" -> c.args.buffer
      [] c.op = "upload_part_copy" ->
           IF IsSome(ObjectAt(objs, c.args.source_object_key))
           THEN Unwrap(ObjectAt(objs, c.args.source_object_key)).data ELSE <<>>
      [] OTHER -> <<>>
BytesOf(c) == BytesIn(c, objects)

\* Task t calls an operation: the future is created and polled.  The tasks
\* are alike, so the second is taken only while the first is busy.
Start(t, nets) ==
    /\ Ready
    /\ flight[t].stage = "idle"
    /\ t = "t2" => flight["t1"].stage /= "idle"
    /\ \E c \in ConcurrentCalls, net \in nets :
        flight' = [flight EXCEPT ![t] =
                     [stage |-> "called", op |-> c.op, args |-> c.args, net |-> net,
                      sent |-> 0, result |-> Ok("unit")]]
    /\ calls' = calls + 1
    /\ UNCHANGED <<uploads, objects, caller, last, disk, versions, client>>

\* A client that kept the sessions its calls named.
HandleKeepingSession(t) ==
    /\ flight[t].stage = "called"
    /\ \E o \in {OutcomeOf(flight[t])} :
        /\ uploads' = o.svc.uploads
        /\ objects' = o.svc.objects
        /\ versions' = o.svc.versions
        /\ client' = [client EXCEPT !.sessions = @ \cup {flight[t].args.upload_id}]
        /\ caller' = [n \in 1..Len(o.svc.uploads) |->
                         CallerAfter(n, flight[t].op, flight[t].args, o,
                                     PartOf(flight[t]), BytesOf(flight[t]))]
        /\ flight' = [flight EXCEPT ![t].stage = "served", ![t].sent = o.sent,
                                    ![t].result = o.result]
    /\ UNCHANGED <<last, calls, disk>>

\* The request of task t's call is handled (or fails on the way).
Handle(t) ==
    /\ flight[t].stage = "called"
    /\ \E o \in {OutcomeOf(flight[t])} :
        /\ uploads' = o.svc.uploads
        /\ objects' = o.svc.objects
        /\ versions' = o.svc.versions
        /\ client' = client
        /\ caller' = [n \in 1..Len(o.svc.uploads) |->
                         CallerAfter(n, flight[t].op, flight[t].args, o,
                                     PartOf(flight[t]), BytesOf(flight[t]))]
        /\ flight' = [flight EXCEPT ![t].stage = "served", ![t].sent = o.sent,
                                    ![t].result = o.result]
    /\ UNCHANGED <<last, calls, disk>>

\* Task t takes the result of its call.
Finish(t) ==
    /\ flight[t].stage = "served"
    /\ flight' = [flight EXCEPT ![t] = NotCalling]
    /\ UNCHANGED <<uploads, objects, caller, last, calls, disk, versions, client>>

NextRace ==
    \/ Return
    \/ Initiate({TheBucket}, {KeyA}, {"ok"})
    \/ PutObjectFromBuffer({TheBucket}, {KeyB}, {<<3>>}, {None}, {NoReply}, {"ok"})
    \/ \E t \in Tasks : Start(t, {"ok", "lost"})
    \/ \E t \in Tasks : Handle(t)
    \/ \E t \in Tasks : Finish(t)

SpecRace == Init /\ [][NextRace]_vars

\* Task t drops the future of its call at the await of do_request, before
\* the request was handled or before the response was taken (a timeout or a
\* cancellation on the caller's side).  The task keeps no result; that it
\* dropped a call, and whether the request had gone out, stays on record.
Abandon(t) ==
    /\ flight[t].stage \in {"called", "served"}
    /\ flight' = [flight EXCEPT ![t] = [NotCalling EXCEPT !.sent = flight[t].sent,
                                                          !.result = Err(ErrOther("dropped"))]]
    /\ UNCHANGED <<uploads, objects, caller, last, calls, disk, versions, client>>

NextCancel ==
    \/ Return
    \/ Initiate({TheBucket}, {KeyA}, {"ok"})
    \/ \E t \in Tasks : Start(t, {"ok"})
    \/ \E t \in Tasks : Handle(t)
    \/ \E t \in Tasks : Finish(t)
    \/ \E t \in Tasks : Abandon(t)

SpecCancel == Init /\ [][NextCancel]_vars

-----------------------------------------------------------------------------
(* Downloads to local files *)

\* Bytes whose values tell their positions apart: no two spans of the same
\* length at different offsets of a pattern this short are equal.
Pattern(n) == [i \in 1..n |-> (i + (i \div 256)) % 256]

\* The sizes of the objects put: below, at and above the 500 bytes a range
\* of positions 0 to 499 needs.
ObjectSizes == {499, 500, 700}

RangeFirst500 == <<"b", "y", "t", "e", "s", "=", "0", "-", "4", "9", "9">>
RangeFrom500 == <<"b", "y", "t", "e", "s", "=", "5", "0", "0", "-">>

\* GetObjectOptions: range
GetOptionSet ==
    {None, Some([range |-> Some(RangeFirst500)]), Some([range |-> Some(RangeFrom500)])}

\* Output paths: one under a directory to be made, one in the working
\* directory, that one relative, a relative one under a directory to be
\* made, and two with a refused character.
OutPaths ==
    { <<"/", "o", "/", "f">>, <<"/", "w", "/", "f">>, <<"f">>, <<"n", "/", "f">>,
      <<"/", "o", ">", "/", "f">>, <<"f", "|">> }

\* The absolute path a call's file_path stands for.
ResolvedPath(file_path) ==
    IF is_relative(file_path) THEN Cwd \o <<"/">> \o file_path ELSE file_path

\* The chunk sizes of the response streams: several chunks or one.
ChunkSizes == {200, 1000}

GetNets == {"ok", "unreachable", "forbidden", "cut"}

\* The bucket names of the downloads: the bucket, and a name no bucket has.
GetBuckets == {TheBucket, <<>>}

GetObjectToFile(buckets, keys, paths, optionSet, nets, sizes) ==
    /\ Ready
    /\ \E bucket \in buckets, key \in keys, file_path \in paths, options \in optionSet,
          net \in nets, size \in sizes :
        \E o \in {get_object_to_file(bucket, key, file_path, options, net, size)} :
            /\ calls' = calls + 1
            /\ uploads' = o.svc.uploads
            /\ objects' = o.svc.objects
            /\ versions' = o.svc.versions
            /\ client' = client
            /\ disk' = o.disk
            /\ last' = [op |-> "get_object_to_file",
                        args |-> [bucket |-> bucket, key |-> key, file_path |-> file_path,
                                  options |-> options, size |-> size],
                        sent |-> o.sent, wire |-> o.wire, result |-> o.result]
            /\ UNCHANGED <<caller, flight>>

DeleteObject(buckets, keys, nets) ==
    /\ Ready
    /\ \E bucket \in buckets, key \in keys, net \in nets :
        Call("delete_object", [bucket |-> bucket, key |-> key],
             delete_object(bucket, key, None, net), None, <<>>)

NextGet ==
    \/ Return
    \/ PutObjectFromBuffer({TheBucket}, {KeyA}, {Pattern(n) : n \in ObjectSizes}, {None},
                           {NoReply}, {"ok"})
    \/ DeleteObject({TheBucket}, {KeyA}, {"ok"})
    \/ GetObjectToFile(GetBuckets, {KeyA}, OutPaths, GetOptionSet, GetNets, ChunkSizes)

SpecGet == Init /\ [][NextGet]_vars

-----------------------------------------------------------------------------
(* Appends *)

AppendObjectFromFile(buckets, keys, positions, nets) ==
    /\ Ready
    /\ \E bucket \in buckets, key \in keys, position \in positions, net \in nets :
        Call("append_object_from_file",
             [bucket |-> bucket, key |-> key, position |-> position],
             append_object_from_file(bucket, key, position, None, net), None, <<>>)

AppendObjectFromBuffer(buckets, keys, buffers, positions, nets) ==
    /\ Ready
    /\ \E bucket \in buckets, key \in keys, buffer \in buffers, position \in positions,
          net \in nets :
        Call("append_object_from_buffer",
             [bucket |-> bucket, key |-> key, buffer |-> buffer, position |-> position],
             append_object_from_buffer(bucket, key, buffer, position, None, net), None, <<>>)

HeadObject(buckets, keys, optionSet, nets) ==
    /\ Ready
    /\ \E bucket \in buckets, key \in keys, options \in optionSet, net \in nets :
        Call("head_object", [bucket |-> bucket, key |-> key, options |-> options],
             head_object(bucket, key, options, net), None, <<>>)

\* The positions a caller may append at: every length the object can have
\* within the calls of one run, and one past it.
AppendPositions == 0..(MaxCalls * Len(FileContent))

\* The keys of the appends: the key, and the same with a leading "/".
AppendKeys == {KeyA, <<"/">> \o KeyA}

NextAppend ==
    \/ Return
    \/ AppendObjectFromFile({TheBucket}, AppendKeys, AppendPositions, ProtocolNets)
    \/ AppendObjectFromBuffer({TheBucket}, {KeyA}, {<<3>>, <<>>}, AppendPositions, {"ok"})
    \/ AppendObjectFromBase64({TheBucket}, {KeyA}, GoodBase64, AppendPositions, {"ok"})
    \/ HeadObject({TheBucket}, {KeyA}, {None}, {"ok"})

SpecAppend == Init /\ [][NextAppend]_vars

-----------------------------------------------------------------------------
(* Folders *)

CreateFolder(buckets, keys, nets) ==
    /\ Ready
    /\ \E bucket \in buckets, key \in keys, net \in nets :
        Call("create_folder", [bucket |-> bucket, key |-> key],
             create_folder(bucket, key, net), None, <<>>)

DeleteFolder(buckets, keys, nets) ==
    /\ Ready
    /\ \E bucket \in buckets, key \in keys, net \in nets :
        Call("delete_folder", [bucket |-> bucket, key |-> key],
             delete_folder(bucket, key, net), None, <<>>)

\* The folder "d" as a caller may name it, and a folder that holds nothing.
FolderNames == {<<"d">>, <<"d", "/">>, <<"/", "d">>, <<"e">>}

NextFolder ==
    \/ Return
    \/ CreateFolder({TheBucket}, FolderNames, {"ok"})
    \/ DeleteFolder({TheBucket, <<>>}, FolderNames, ProtocolNets)
    \/ PutObjectFromBuffer({TheBucket}, {KeyA, KeyB}, {<<3>>}, {None}, {NoReply}, {"ok"})
    \/ DeleteObject({TheBucket}, {KeyB}, {"ok"})

SpecFolder == Init /\ [][NextFolder]_vars

-----------------------------------------------------------------------------
(* Object tags in the versioned bucket *)

PutObjectFromFile(buckets, keys, optionSet, nets) ==
    /\ Ready
    /\ \E bucket \in buckets, key \in keys, options \in optionSet, net \in nets :
        Call("put_object_from_file", [bucket |-> bucket, key |-> key, options |-> options],
             put_object_from_file(bucket, key, options, net, NoReply), None, <<>>)

GetObjectTags(buckets, keys, optionSet, nets) ==
    /\ Ready
    /\ \E bucket \in buckets, key \in keys, options \in optionSet, net \in nets :
        Call("get_object_tags", [bucket |-> bucket, key |-> key, options |-> options],
             get_object_tags(bucket, key, options, net), None, <<>>)

PutObjectTags(buckets, keys, tagSets, optionSet, nets) ==
    /\ Ready
    /\ \E bucket \in buckets, key \in keys, tags \in tagSets, options \in optionSet,
          net \in nets :
        Call("put_object_tags",
             [bucket |-> bucket, key |-> key, tags |-> tags, options |-> options],
             put_object_tags(bucket, key, tags, options, net), None, <<>>)

DeleteObjectTags(buckets, keys, optionSet, nets) ==
    /\ Ready
    /\ \E bucket \in buckets, key \in keys, options \in optionSet, net \in nets :
        Call("delete_object_tags", [bucket |-> bucket, key |-> key, options |-> options],
             delete_object_tags(bucket, key, options, net), None, <<>>)

\* The tags of the test: one tag given when the object is put, two put later.
TagA == [k \in {"tag-a"} |-> "tag-value-a"]
TagsBC == [k \in {"tag-b", "tag-c"} |-> IF k = "tag-b" THEN "tag-value-b" ELSE "tag-value-c"]

\* Options naming no version (the current one), the first or the second.
VersionOptionSet == {None, Some([version_id |-> Some(1)]), Some([version_id |-> Some(2)])}

NextTags ==
    \/ Return
    \/ PutObjectFromFile({VersionedBucket}, {KeyA},
                         {None, Some([callback |-> None, tags |-> TagA])}, {"ok"})
    \/ HeadObject({VersionedBucket}, {KeyA}, VersionOptionSet, {"ok"})
    \/ GetObjectTags({VersionedBucket, <<>>}, {KeyA}, VersionOptionSet, {"ok", "garbled"})
    \/ PutObjectTags({VersionedBucket}, {KeyA}, {TagA, TagsBC}, VersionOptionSet,
                     {"ok", "unreachable"})
    \/ DeleteObjectTags({VersionedBucket}, {KeyA}, VersionOptionSet, {"ok"})

SpecTags == Init /\ [][NextTags]_vars

-----------------------------------------------------------------------------
(* Part uploads from a file range and from a buffer *)

\* Every range [start, end) with start <= end <= the file's length.
AllFileRanges ==
    {r \in [start : 0..Len(FileContent), end : 0..Len(FileContent)] : r.start <= r.end}

\* The bytes of the file in [start, end).
FileSlice(range) == SubSeq(FileContent, range.start + 1, range.end)

NextParts ==
    \/ Return
    \/ Initiate({TheBucket}, {KeyA}, {"ok"})
    \/ UploadPartFromFile(ProtocolTargets, AllFileRanges, {"ok", "unreachable"})
    \/ UploadPartFromBuffer(ProtocolTargets, {FileContent}, {"ok"})

SpecParts == Init /\ [][NextParts]_vars

-----------------------------------------------------------------------------
(* Properties of the multipart protocol (Spec) *)

CompletedOk == last.op = "complete_multipart_uploads" /\ last.result.ok
ListedOk == last.op = "list_parts" /\ last.result.ok

\* The bytes the caller last uploaded for part pn of session n.
SourceOf(n, pn) == Unwrap(caller[n].parts[pn]).bytes

\* The caller's sources of the parts pns of session n, by ascending number.
SourcesInOrder(n, pns) ==
    LET order == Ascending(pns) IN [i \in 1..Len(order) |-> SourceOf(n, order[i])]

\* The data of the object at key (empty when there is none).
DataAt(key) ==
    IF IsSome(ObjectAt(objects, key)) THEN Unwrap(ObjectAt(objects, key)).data ELSE <<>>

\* C1: when complete_multipart_uploads succeeds with a manifest in ascending
\* part-number order, the object at the key is the concatenation of the
\* bytes the caller uploaded for the manifest's parts, in ascending
\* part-number order, whatever the order of the upload calls was.
C1_ObjectIsPartsInNumberOrder ==
    (CompletedOk /\ IsAscending(last.args.parts)) =>
        /\ IsIssuedId(last.args.upload_id)
        /\ LET n == SessionOf(last.args.upload_id)
               pns == PartNumbersOf(last.args.parts)
           IN /\ \A pn \in pns : IsSome(caller[n].parts[pn])
              /\ IsSome(ObjectAt(objects, last.args.key))
              /\ DataAt(last.args.key) = Concat(SourcesInOrder(n, pns))

\* C1 happens: part 2 was uploaded before part 1, with different bytes, and
\* the completed object is part 1's bytes followed by part 2's.
C1_Witness ==
    /\ CompletedOk
    /\ Len(last.args.parts) = 2
    /\ LET n == SessionOf(last.args.upload_id)
       IN /\ Unwrap(caller[n].parts[2]).at < Unwrap(caller[n].parts[1]).at
          /\ SourceOf(n, 1) /= SourceOf(n, 2)
          /\ DataAt(last.args.key) = SourceOf(n, 1) \o SourceOf(n, 2)

\* Where the i-th part of the manifest starts in the completed object.
OffsetOf(n, manifest, i) ==
    Len(Concat([j \in 1..(i - 1) |-> SourceOf(n, manifest[j][1])]))

\* C2: when a part number was uploaded with data A and then again with data
\* B, and complete_multipart_uploads succeeds with that part in the manifest,
\* the part's slot of the object holds exactly B, and the ETag the manifest
\* gave for it is B's, not A's.
C2_ReuploadedPartIsLastData ==
    CompletedOk =>
        /\ IsIssuedId(last.args.upload_id)
        /\ LET n == SessionOf(last.args.upload_id)
               manifest == last.args.parts
           IN /\ \A i \in 1..Len(manifest) : IsSome(caller[n].parts[manifest[i][1]])
              /\ \A i \in 1..Len(manifest) :
                    LET rec == Unwrap(caller[n].parts[manifest[i][1]])
                        from == OffsetOf(n, manifest, i)
                    IN IsSome(rec.replaced) =>
                          /\ Len(DataAt(last.args.key)) >= from + Len(rec.bytes)
                          /\ SubSeq(DataAt(last.args.key), from + 1, from + Len(rec.bytes))
                               = rec.bytes
                          /\ manifest[i][2] = ETagOf(rec.bytes)
                          /\ Unwrap(rec.replaced) /= rec.bytes
                               => manifest[i][2] /= ETagOf(Unwrap(rec.replaced))

\* C2 happens: part 1 was uploaded twice with different bytes and the
\* completed object is the second upload's bytes.
C2_Witness ==
    /\ CompletedOk
    /\ last.args.parts = <<(<<1, ETagOf(<<2>>)>>)>>
    /\ LET n == SessionOf(last.args.upload_id)
       IN /\ Unwrap(caller[n].parts[1]).replaced = Some(<<1>>)
          /\ SourceOf(n, 1) = <<2>>
    /\ DataAt(last.args.key) = <<2>>

\* The part numbers the caller saw an upload succeed for in session n.
SucceededParts(n) ==
    {pn \in PartNumbers : IsSome(caller[n].parts[pn]) /\ IsSome(Unwrap(caller[n].parts[pn]).etag)}

\* The part numbers the service holds for session n.
HeldParts(n) == {pn \in PartNumbers : IsSome(uploads[n].parts[pn])}

ListedNumbers ==
    [i \in 1..Len(last.result.val.parts) |-> last.result.val.parts[i].part_number]

\* C3 as stated: list_parts returns exactly one entry for each part number
\* that was uploaded successfully.
C3_ListPartsReturnsEveryPart ==
    ListedOk =>
        LET n == SessionOf(last.args.upload_id)
        IN /\ Len(ListedNumbers) = Cardinality(SucceededParts(n))
           /\ {ListedNumbers[i] : i \in 1..Len(ListedNumbers)} = SucceededParts(n)

\* C3, amended: list_parts returns one page: the part numbers the service
\* holds for the session that are above the part-number marker, ascending,
\* cut to max-parts (DefaultMaxParts when not given).  The held parts
\* include every part whose upload succeeded; without options, and with no
\* more than DefaultMaxParts parts, the page is all of them.
C3_ListPartsReturnsOnePage ==
    ListedOk =>
        /\ IsIssuedId(last.args.upload_id)
        /\ LET n == SessionOf(last.args.upload_id)
               o == last.args.options
               marker == IF IsSome(o) /\ IsSome(Unwrap(o).part_number_marker)
                         THEN Unwrap(Unwrap(o).part_number_marker) ELSE 0
               max == IF IsSome(o) /\ IsSome(Unwrap(o).max_parts)
                      THEN Unwrap(Unwrap(o).max_parts) ELSE DefaultMaxParts
               above == Ascending({pn \in HeldParts(n) : pn > marker})
           IN /\ ListedNumbers = SubSeq(above, 1, Min(max, Len(above)))
              /\ SucceededParts(n) \subseteq HeldParts(n)
              /\ o = None => Len(ListedNumbers) = Cardinality(HeldParts(n))

\* C3 happens: two parts were uploaded and a listing with max-parts 1
\* returns one entry.
C3_Witness ==
    /\ ListedOk
    /\ last.args.options = Some([max_parts |-> Some(1), part_number_marker |-> None])
    /\ Cardinality(SucceededParts(SessionOf(last.args.upload_id))) = 2
    /\ ListedNumbers = <<1>>

\* No completed session and no plain write put an object at key.
NothingElseWrote(key) ==
    /\ \A n \in 1..Len(uploads) : uploads[n].key = key => uploads[n].state /= "completed"
    /\ IsSome(ObjectAt(objects, key)) => Unwrap(ObjectAt(objects, key)).origin /= 0

AbortedSessions(key) ==
    {n \in 1..Len(uploads) : uploads[n].key = key /\ uploads[n].state = "aborted"}

\* C4: no object was ever made from an aborted session; and once a session
\* on a key is aborted, with nothing else having written the key, exists
\* never reports the object: it returns Ok(false), or the error of a request
\* that failed otherwise than with status 404.
C4_AbortedSessionLeavesNoObject ==
    /\ \A n \in 1..Len(uploads) :
          uploads[n].state = "aborted" =>
              \A key \in DOMAIN objects : objects[key].origin /= n
    /\ ( /\ last.op = "exists"
         /\ AbortedSessions(last.args.key) /= {}
         /\ NothingElseWrote(last.args.key) ) =>
           IF last.result.ok THEN last.result.val = FALSE
           ELSE /\ last.sent = 1
                /\ last.result.err.kind \in {"Transport", "StatusError"}
                /\ last.result.err.status /= 404

\* C4 happens: a session with an uploaded part was aborted and exists on its
\* key returned Ok(false).
C4_Witness ==
    /\ last.op = "exists"
    /\ last.result = Ok(FALSE)
    /\ \E n \in AbortedSessions(last.args.key) : SucceededParts(n) /= {}

\* The operations that name a session by its upload id.
SessionOps ==
    { "list_parts", "upload_part_from_file", "upload_part_from_buffer",
      "upload_part_from_base64", "upload_part_copy", "complete_multipart_uploads",
      "abort_multipart_uploads" }

\* The service issued id for a session on key.
IssuedFor(id, key) == IsIssuedId(id) /\ uploads[SessionOf(id)].key = key

\* A successful initiate_multipart_uploads returned id for key.
ReturnedFor(id, key) == IssuedFor(id, key) /\ caller[SessionOf(id)].returned

\* C10 as stated: an operation with an upload id that no successful
\* initiate_multipart_uploads returned for the key never succeeds.
C10_UnreturnedIdNeverSucceeds ==
    (last.op \in SessionOps /\ ~ReturnedFor(last.args.upload_id, last.args.key))
        => ~last.result.ok

\* C10, amended: an operation with an upload id that the service has not
\* issued for the key never succeeds and changes no session and no object.
C10_UnissuedIdChangesNothing ==
    [][ (last'.op \in SessionOps /\ last.op = "none"
         /\ ~IssuedFor(last'.args.upload_id, last'.args.key))
        => (~last'.result.ok /\ uploads' = uploads /\ objects' = objects) ]_vars

\* C10 happens: with a session open on another key, a request with its id
\* reached the service and failed, and a part upload with an id the service
\* had not issued yet failed as well.
C10_Witness ==
    /\ last.op \in SessionOps
    /\ last.sent = 1
    /\ ~last.result.ok
    /\ last.result.err = ErrStatus(404)
    /\ IsIssuedId(last.args.upload_id)
    /\ ~IssuedFor(last.args.upload_id, last.args.key)
    /\ uploads[SessionOf(last.args.upload_id)].state = "open"

UploadFailedOnOpenSession ==
    /\ last.op \in UploadOps
    /\ ~last.result.ok
    /\ IssuedFor(last.args.upload_id, last.args.key)
    /\ uploads[SessionOf(last.args.upload_id)].state = "open"

\* The manifest of all the parts session n holds, with their ETags.
HeldManifest(n) ==
    LET order == Ascending({pn \in PartNumbers : IsSome(uploads[n].parts[pn])})
    IN [i \in 1..Len(order) |-> <<order[i], ETagOf(Unwrap(uploads[n].parts[order[i]]))>>]

\* C16 as stated: when an open session holds some parts and a further part
\* upload returns an error, the session is still open and every part it
\* held is there with the ETag it had.
C16_FailedUploadChangesNothing ==
    [][ ( /\ last'.op \in UploadOps /\ last.op = "none" /\ ~last'.result.ok
          /\ IssuedFor(last'.args.upload_id, last'.args.key)
          /\ uploads[SessionOf(last'.args.upload_id)].state = "open"
          /\ uploads[SessionOf(last'.args.upload_id)].parts /= NoParts )
        => LET n == SessionOf(last'.args.upload_id)
           IN /\ uploads'[n].state = "open"
              /\ \A q \in PartNumbers :
                    IsSome(uploads[n].parts[q]) =>
                        /\ IsSome(uploads'[n].parts[q])
                        /\ ETagOf(Unwrap(uploads'[n].parts[q]))
                             = ETagOf(Unwrap(uploads[n].parts[q])) ]_vars

\* C16, amended: a part upload that returns an error ends no session and
\* changes no object and no part other than the one it names; that part is
\* as it was, or, when the request was handled and only its response was
\* lost, it holds the data of the failed call.  After the failed call the
\* session is open as before: a retry of the part, an upload of every other
\* part number, an abort, and a complete with the parts held are accepted.
C16_FailedUploadLeavesSessionOpen ==
    /\ [][ (last'.op \in UploadOps /\ last.op = "none" /\ ~last'.result.ok) =>
             /\ objects' = objects
             /\ Len(uploads') = Len(uploads)
             /\ \A m \in 1..Len(uploads) :
                   /\ uploads'[m].state = uploads[m].state
                   /\ uploads'[m].key = uploads[m].key
                   /\ \A q \in PartNumbers :
                         uploads'[m].parts[q] /= uploads[m].parts[q] =>
                             /\ last'.wire = "lost"
                             /\ last'.args.upload_id = UploadIdOf(m)
                             /\ last'.args.part_number = q
                             /\ uploads'[m].parts[q] =
                                  Some(BytesIn([op |-> last'.op, args |-> last'.args],
                                               objects)) ]_vars
    /\ [](UploadFailedOnOpenSession =>
            LET a == last.args
                n == SessionOf(a.upload_id)
            IN /\ \A pn \in PartNumbers :
                     upload_part_from_buffer(a.bucket, a.key, <<2>>,
                                             [part_number |-> pn, upload_id |-> a.upload_id],
                                             "ok").result.ok
               /\ abort_multipart_uploads(a.bucket, a.key, a.upload_id, "ok").result.ok
               /\ HeldManifest(n) /= <<>> =>
                     complete_multipart_uploads(a.bucket, a.key,
                                                [upload_id |-> a.upload_id,
                                                 parts |-> HeldManifest(n)],
                                                None, "ok", NoReply).result.ok)

\* C16 happens: part 1 of an open session was uploaded, then a second
\* upload of part 1 with other data returned an error although the service
\* had taken it: the session is open and holds the data of the failed call
\* under part 1, not the data whose ETag the caller was given.
C16_Witness ==
    /\ UploadFailedOnOpenSession
    /\ last.wire = "lost"
    /\ last.args.part_number = 1
    /\ LET n == SessionOf(last.args.upload_id)
       IN /\ IsSome(caller[n].parts[1])
          /\ IsSome(Unwrap(caller[n].parts[1]).etag)
          /\ IsSome(uploads[n].parts[1])
          /\ Unwrap(caller[n].parts[1]).etag /= Some(ETagOf(Unwrap(uploads[n].parts[1])))
          /\ uploads[n].parts[1] = Some(BytesOf(last))

\* The step is a call of initiate_multipart_uploads.
InitiateStep == last.op = "none" /\ last'.op = "initiate_multipart_uploads"

\* The step adds one open session without parts for the call's key and
\* changes nothing else.
OneSessionAdded ==
    /\ uploads' = Append(uploads, [key |-> last'.args.key, state |-> "open",
                                   parts |-> NoParts])
    /\ objects' = objects

\* C17 as stated: when initiate_multipart_uploads returns an error, no
\* session has come to exist through the call.
C17_FailedInitiateCreatesNothing ==
    [][ (InitiateStep /\ ~last'.result.ok) => uploads' = uploads ]_vars

\* C17, amended: initiate_multipart_uploads creates at most one session.  It
\* returns Ok exactly when the service created the session and the response
\* was received and decoded, and the upload id returned is that session's.
\* It returns an error with nothing created when the error is local, the
\* request does not arrive or the service refuses it; and it returns an
\* error with the session created, its id unknown to the caller, when the
\* response is lost or its body cannot be decoded.
C17_InitiateCreatesAtMostOneSession ==
    [][ InitiateStep =>
          /\ OneSessionAdded \/ (uploads' = uploads /\ objects' = objects)
          /\ last'.result.ok =>
                /\ OneSessionAdded
                /\ last'.result.val.upload_id = UploadIdOf(Len(uploads'))
                /\ last'.wire = "ok"
          /\ last'.wire = "ok" => (last'.result.ok \/ uploads' = uploads)
          /\ last'.wire \in {"unused", "unreachable", "forbidden"} =>
                (~last'.result.ok /\ uploads' = uploads)
          /\ last'.wire = "lost" =>
                (last'.result = Err(ErrTransport) /\ OneSessionAdded)
          /\ last'.wire = "garbled" =>
                (last'.result = Err(ErrDecode("xml")) /\ OneSessionAdded) ]_vars

\* C17 happens: the response of an initiate could not be decoded; the call
\* returned the decoding error, and the session it created is open on the
\* service with an id no call has returned.
C17_Witness ==
    /\ last.op = "initiate_multipart_uploads"
    /\ last.wire = "garbled"
    /\ last.result = Err(ErrDecode("xml"))
    /\ Len(uploads) = 1
    /\ uploads[1].state = "open"
    /\ uploads[1].key = last.args.key
    /\ ~caller[1].returned

\* The step is a call of complete_multipart_uploads.
CompleteStep == last.op = "none" /\ last'.op = "complete_multipart_uploads"

\* The parts the service holds for the session a call names with id under
\* key; none when there is no such open session.
HeldFor(id, key) ==
    IF IssuedFor(id, key)
    THEN IF uploads[SessionOf(id)].state = "open" THEN uploads[SessionOf(id)].parts
         ELSE NoParts
    ELSE NoParts

\* Every entry of the manifest names a part among `held` with the ETag of
\* its data.
NamesHeldVersions(manifest, held) ==
    \A i \in 1..Len(manifest) :
        /\ manifest[i][1] \in PartNumbers
        /\ IsSome(held[manifest[i][1]])
        /\ manifest[i][2] = ETagOf(Unwrap(held[manifest[i][1]]))

ListedUploadsOk == last.op = "list_multipart_uploads" /\ last.result.ok

\* The listing entry of session n.
EntryOf(n) == [key |-> uploads[n].key, upload_id |-> UploadIdOf(n)]

OpenSessions == {n \in 1..Len(uploads) : uploads[n].state = "open"}

Ended(id) ==
    IF IsIssuedId(id) THEN uploads[SessionOf(id)].state \in {"completed", "aborted"}
    ELSE FALSE

\* C11: completed and aborted are terminal.  A call of abort, upload part,
\* list parts or complete with the upload id of a session that has ended
\* never returns Ok; when the service answers, the error is the service's
\* status (404), otherwise it is the transport's; and the call changes no
\* session and no object, so a completed object stays as it is.
C11_EndedSessionStaysEnded ==
    [][ (last'.op \in SessionOps /\ last.op = "none" /\ Ended(last'.args.upload_id))
        => /\ ~last'.result.ok
           /\ last'.sent = 1
           /\ last'.result.err \in {ErrStatus(404), ErrTransport}
           /\ uploads' = uploads
           /\ objects' = objects ]_vars

\* C11 happens: a session was completed into an object, and a later abort
\* with its upload id returned the service's 404 with the object in place.
C11_Witness ==
    /\ last.op = "abort_multipart_uploads"
    /\ last.result = Err(ErrStatus(404))
    /\ Ended(last.args.upload_id)
    /\ uploads[SessionOf(last.args.upload_id)].state = "completed"
    /\ uploads[SessionOf(last.args.upload_id)].key = last.args.key
    /\ IsSome(ObjectAt(objects, last.args.key))
    /\ Unwrap(ObjectAt(objects, last.args.key)).origin = SessionOf(last.args.upload_id)

-----------------------------------------------------------------------------
(* Properties of argument checking and decoding (SpecCalls) *)

\* The call in `last` failed before any request was sent.
FailedLocally ==
    /\ ~last.result.ok
    /\ last.sent = 0
    /\ last.result.err.kind \notin {"StatusError", "Transport"}

\* The options of the call in `last` carry a callback.
CallbackGiven ==
    IF IsSome(last.args.options) THEN IsSome(Unwrap(last.args.options).callback) ELSE FALSE

\* The response body of a completion with a callback as it reached the
\* client: the callback target's reply, or what the transport made of it.
BodyReceived == IF last.wire = "garbled" THEN Damaged ELSE last.args.reply

\* C5: a successful complete_multipart_uploads returns CallbackResponse with
\* the raw response body exactly when options is Some and its callback is
\* Some; otherwise it returns ApiResponse decoded from the response XML.
C5_CallbackDecidesVariant ==
    CompletedOk =>
        IF CallbackGiven
        THEN /\ last.result.val.variant = "CallbackResponse"
             /\ last.result.val.content = BodyReceived
        ELSE /\ last.result.val.variant = "ApiResponse"
             /\ last.result.val.content =
                   [key |-> last.args.key, etag |-> ETagOf(DataAt(last.args.key))]

\* C5 happens: a completion with a callback returned the callback target's
\* body raw, though the body was the XML of a completion result.
C5_Witness ==
    /\ CompletedOk
    /\ CallbackGiven
    /\ last.result.val.variant = "CallbackResponse"
    /\ last.result.val.content.root = "CompleteMultipartUploadResult"

\* Standard base64, by its form: whole quads of alphabet symbols, of which
\* the last may end in one or two '=', the symbol before the padding
\* carrying no stray bits.
IsStandardBase64(s) ==
    /\ Len(s) % 4 = 0
    /\ LET pad == IF Len(s) >= 1 /\ s[Len(s)] = "="
                  THEN (IF Len(s) >= 2 /\ s[Len(s) - 1] = "=" THEN 2 ELSE 1)
                  ELSE 0
           n == Len(s) - pad
       IN /\ \A i \in 1..n : IsB64Symbol(s[i])
          /\ pad = 1 => B64Value(s[n]) % 4 = 0
          /\ pad = 2 => B64Value(s[n]) % 16 = 0

Base64Ops ==
    {"upload_part_from_base64", "put_object_from_base64", "append_object_from_base64"}

\* C6: upload_part_from_base64, put_object_from_base64 and
\* append_object_from_base64, given a string that is not standard base64,
\* return an error without sending a request, and the service is unchanged.
C6_BadBase64FailsLocally ==
    [][ (last'.op \in Base64Ops /\ last.op = "none"
         /\ ~IsStandardBase64(last'.args.base64_string))
        => /\ ~last'.result.ok
           /\ last'.sent = 0
           /\ last'.result.err.kind \notin {"StatusError", "Transport"}
           /\ uploads' = uploads /\ objects' = objects ]_vars

\* C6 happens: with a session open, a part upload whose string has the
\* right length and alphabet but stray bits in its last symbol failed
\* locally.
C6_Witness ==
    /\ last.op = "upload_part_from_base64"
    /\ last.args.base64_string = <<"A", "R", "=", "=">>
    /\ validate_bucket_name(last.args.bucket)
    /\ IssuedFor(last.args.upload_id, last.args.key)
    /\ uploads[SessionOf(last.args.upload_id)].state = "open"
    /\ FailedLocally

\* C7: abort_multipart_uploads sends its request only when the bucket name
\* and the object key are valid and the upload id is not empty; otherwise
\* it returns the error of the first failing check, in the order bucket,
\* key, upload id, and sends nothing.
C7_AbortChecksBeforeSending ==
    last.op = "abort_multipart_uploads" =>
        IF ~validate_bucket_name(last.args.bucket)
        THEN last.sent = 0 /\ last.result = Err(ErrOther("invalid bucket name"))
        ELSE IF ~validate_object_key(last.args.key)
        THEN last.sent = 0 /\ last.result = Err(ErrOther("invalid object key"))
        ELSE IF last.args.upload_id = <<>>
        THEN last.sent = 0 /\ last.result = Err(ErrOther("invalid upload id"))
        ELSE last.sent = 1

\* C7 happens: an abort with a malformed bucket name, a malformed key and
\* an empty upload id returned the bucket error.
C7_Witness ==
    /\ last.op = "abort_multipart_uploads"
    /\ ~validate_bucket_name(last.args.bucket)
    /\ ~validate_object_key(last.args.key)
    /\ last.args.upload_id = <<>>
    /\ last.result = Err(ErrOther("invalid bucket name"))
    /\ last.sent = 0

MultipartOps == SessionOps \cup {"list_multipart_uploads", "initiate_multipart_uploads"}

\* The call in `last` has a bucket name, an object key or an upload id that
\* is empty or malformed.
BadName ==
    \/ ~validate_bucket_name(last.args.bucket)
    \/ last.op /= "list_multipart_uploads" /\ ~validate_object_key(last.args.key)
    \/ last.op \in SessionOps /\ last.args.upload_id = <<>>

\* C8: every multipart operation called with an empty or malformed bucket
\* name, object key or upload id returns a local error and sends no request.
C8_BadNamesFailLocally ==
    (last.op \in MultipartOps /\ BadName) => FailedLocally

\* C8 happens: complete_multipart_uploads with a valid bucket and key and an
\* empty upload id failed locally.
C8_Witness ==
    /\ last.op = "complete_multipart_uploads"
    /\ validate_bucket_name(last.args.bucket)
    /\ validate_object_key(last.args.key)
    /\ last.args.upload_id = <<>>
    /\ FailedLocally

\* C9: exists returns Ok(true) when get_object_metadata succeeds, Ok(false)
\* exactly when it fails with StatusError 404, and otherwise the same
\* error: the validation error when a name is invalid (nothing is sent),
\* else a transport error or a status other than 404.  So Ok(true) is
\* returned only for an object that is there, and Ok(false) only when the
\* service answers that it is not.
C9_ExistsMapsOnly404ToFalse ==
    last.op = "exists" =>
        IF IsSome(NameError(last.args.bucket, last.args.key))
        THEN /\ last.result = Err(Unwrap(NameError(last.args.bucket, last.args.key)))
             /\ last.sent = 0
        ELSE /\ last.sent = 1
             /\ last.result.ok =>
                   IF last.result.val
                   THEN last.args.bucket = TheBucket /\ IsSome(ObjectAt(objects, last.args.key))
                   ELSE last.args.bucket /= TheBucket \/ ObjectAt(objects, last.args.key) = None
             /\ ~last.result.ok =>
                   \/ last.result.err = ErrTransport
                   \/ last.result.err.kind = "StatusError" /\ last.result.err.status /= 404
             /\ \A net \in NetOutcomes :
                   LET meta == get_object_metadata(last.args.bucket, last.args.key,
                                                   None, net).result
                       answer == exists(last.args.bucket, last.args.key, None, net).result
                   IN IF meta.ok THEN answer = Ok(TRUE)
                      ELSE IF meta.err = ErrStatus(404) THEN answer = Ok(FALSE)
                      ELSE answer = meta

\* C9 happens: the object is there, the service answered the metadata
\* request with 403, and exists returned that error.
C9_Witness ==
    /\ last.op = "exists"
    /\ last.args.bucket = TheBucket
    /\ IsSome(ObjectAt(objects, last.args.key))
    /\ last.result = Err(ErrStatus(403))

\* The options of the completion just returned attach a callback.
CompletedWithCallback ==
    /\ last.op = "complete_multipart_uploads"
    /\ IsSome(last.args.options)
    /\ IsSome(Unwrap(last.args.options).callback)

CompletedWithoutCallback ==
    /\ last.op = "complete_multipart_uploads"
    /\ ~(IsSome(last.args.options) /\ IsSome(Unwrap(last.args.options).callback))

\* C27: the decode path of complete_multipart_uploads follows from the
\* options alone.  With a callback attached a successful call returns a
\* CallbackResponse holding the response body as it came, be it text, the
\* completion XML or a damaged body, and no call fails with a decode
\* error.  With no callback attached a successful call returns an
\* ApiResponse, and a response whose body is not the completion XML makes
\* the call fail with a decode error, never a CallbackResponse.
C27_DecodePathFollowsOptions ==
    /\ CompletedWithCallback =>
          /\ last.result.ok =>
                /\ last.result.val.variant = "CallbackResponse"
                /\ last.result.val.content
                     = IF last.wire = "garbled" THEN Damaged ELSE last.args.reply
          /\ ~last.result.ok => last.result.err.kind /= "Decode"
    /\ CompletedWithoutCallback =>
          /\ last.result.ok => last.result.val.variant = "ApiResponse"
          /\ last.wire = "garbled" =>
                /\ ~last.result.ok
                /\ last.result.err.kind \in {"Decode", "StatusError", "Other"}

\* A completion with a callback has returned the completion XML its
\* callback target answered, as a CallbackResponse.
C27_Witness ==
    /\ CompletedWithCallback
    /\ last.result.ok
    /\ last.result.val.variant = "CallbackResponse"
    /\ last.result.val.content.format = "xml"

-----------------------------------------------------------------------------
(* Properties of concurrent calls (SpecRace) *)

\* The request of task t's call is handled in this step.
Handled(t) == flight[t].stage = "called" /\ flight'[t].stage = "served"

\* The session a call under way names (the tasks name issued sessions).
SessionIn(c) == SessionOf(c.args.upload_id)

\* C12: abort may race with part uploads of its session.  Whenever an abort
\* succeeds, whatever calls are under way, the session becomes aborted with
\* its parts discarded, nothing else changes, and no object comes from the
\* session; and an upload or a complete that reaches the service after the
\* session was aborted fails and changes nothing.
C12_AbortRacesWithoutCorruption ==
    [][ \A t \in Tasks : Handled(t) =>
          LET c == flight'[t]
              n == SessionIn(c)
          IN /\ (c.op = "abort_multipart_uploads" /\ c.result.ok) =>
                  /\ uploads' = [uploads EXCEPT ![n].state = "aborted", ![n].parts = NoParts]
                  /\ objects' = objects
                  /\ \A key \in DOMAIN objects' : objects'[key].origin /= n
             /\ (c.op \in UploadOps \cup {"complete_multipart_uploads"}
                    /\ uploads[n].state = "aborted") =>
                  /\ ~c.result.ok
                  /\ uploads' = uploads
                  /\ objects' = objects ]_vars

\* C12 happens: an abort and a part upload of the same session were under
\* way together; the upload was stored and returned Ok, the abort returned
\* Ok, and the session is aborted with no part left, next to another
\* session.
C12_Witness ==
    \E a, b \in Tasks :
        /\ flight[a].stage = "served" /\ flight[a].op = "abort_multipart_uploads"
        /\ flight[a].result.ok
        /\ flight[b].stage = "served" /\ flight[b].op \in UploadOps
        /\ flight[b].result.ok
        /\ flight[b].args.upload_id = flight[a].args.upload_id
        /\ uploads[SessionIn(flight[a])].state = "aborted"
        /\ uploads[SessionIn(flight[a])].parts = NoParts
        /\ Len(uploads) = 2

\* The calls of tasks a and b are uploads of different part numbers of one
\* session, both handled and both successful.
UploadedApart(a, b) ==
    /\ flight[a].stage = "served" /\ flight[b].stage = "served"
    /\ flight[a].op \in UploadOps /\ flight[b].op \in UploadOps
    /\ flight[a].result.ok /\ flight[b].result.ok
    /\ flight[a].args.upload_id = flight[b].args.upload_id
    /\ flight[a].args.part_number /= flight[b].args.part_number

\* C13: concurrent part uploads (from file, from buffer, by copy) of one
\* session with different part numbers do not interfere.  When the request
\* of an upload is handled, no other part number and no other session
\* changes; if the call succeeds, its part number holds exactly its data
\* and its ETag is that data's.  A call's effect is thus the same at every
\* place in the order the requests are handled in, and the parts held in
\* the end are those of the calls made one after another.
C13_DifferentPartsDoNotInterfere ==
    [][ \A t \in Tasks : (Handled(t) /\ flight[t].op \in UploadOps) =>
              LET c == flight'[t]
                  n == SessionIn(c)
                  pn == c.args.part_number
              IN /\ objects' = objects
                 /\ Len(uploads') = Len(uploads)
                 /\ \A m \in 1..Len(uploads) :
                       /\ uploads'[m].state = uploads[m].state
                       /\ \A q \in PartNumbers :
                             (m /= n \/ q /= pn) => uploads'[m].parts[q] = uploads[m].parts[q]
                 /\ c.result.ok =>
                       /\ uploads'[n].parts[pn] = Some(BytesOf(flight[t]))
                       /\ c.result.val.etag = ETagOf(BytesOf(flight[t])) ]_vars

\* C13 happens: an upload from a buffer of part 1 and an upload by copy of
\* part 2 overlapped, the request of part 2 was handled first, and both
\* parts are held with their own data.
C13_Witness ==
    \E a, b \in Tasks :
        /\ UploadedApart(a, b)
        /\ flight[a].op = "upload_part_from_buffer" /\ flight[a].args.part_number = 1
        /\ flight[b].op = "upload_part_copy" /\ flight[b].args.part_number = 2
        /\ LET n == SessionIn(flight[a])
           IN /\ uploads[n].parts[1] = Some(flight[a].args.buffer)
              /\ uploads[n].parts[2] = Some(DataAt(KeyB))
              /\ DataAt(KeyB) /= flight[a].args.buffer
              /\ Unwrap(caller[n].parts[2]).at < Unwrap(caller[n].parts[1]).at

\* Every part an open session holds is the data of the last upload the
\* service took for it, whole.
HeldIsLastWrite ==
    \A n \in 1..Len(uploads) : \A pn \in PartNumbers :
        uploads[n].state = "open" =>
            uploads[n].parts[pn] =
                IF IsSome(caller[n].parts[pn])
                THEN Some(Unwrap(caller[n].parts[pn]).bytes) ELSE None

\* C14: when callers upload the same part number of a session concurrently,
\* the session holds one version of the part: each upload the service
\* takes replaces the part by the call's data as a whole, so the part is the
\* data written last and never a mixture.  A call that succeeds returns the
\* ETag of its own data, and a complete succeeds only with the ETag of the
\* data written last for each part it names.
C14_SamePartLastWriteWins ==
    [][ /\ HeldIsLastWrite'
        /\ \A t \in Tasks : (Handled(t) /\ flight[t].op \in UploadOps) =>
              LET c == flight'[t]
                  n == SessionIn(c)
                  pn == c.args.part_number
              IN /\ uploads'[n].parts[pn] \in
                        {uploads[n].parts[pn], Some(BytesOf(flight[t]))}
                 /\ c.result.ok =>
                       /\ uploads'[n].parts[pn] = Some(BytesOf(flight[t]))
                       /\ c.result.val.etag = ETagOf(BytesOf(flight[t]))
        /\ \A t \in Tasks :
              ( /\ Handled(t)
                /\ flight[t].op = "complete_multipart_uploads"
                /\ flight'[t].result.ok ) =>
              LET n == SessionIn(flight[t])
                  manifest == flight[t].args.parts
              IN /\ \A i \in 1..Len(manifest) :
                       /\ IsSome(caller[n].parts[manifest[i][1]])
                       /\ manifest[i][2] =
                            ETagOf(Unwrap(caller[n].parts[manifest[i][1]]).bytes)
                 /\ IsSome(ObjectAt(objects', flight[t].args.key))
                 /\ Unwrap(ObjectAt(objects', flight[t].args.key)).data =
                      Concat([i \in 1..Len(manifest) |->
                                Unwrap(caller[n].parts[manifest[i][1]]).bytes]) ]_vars

\* C14 happens: two tasks uploaded part 1 of a session with different data
\* at the same time and both succeeded; the session was then completed
\* with the ETag of the upload handled last, and the object is that
\* upload's data, not the data of the other task, whose call is not even
\* over.
C14_Witness ==
    \E a, b \in Tasks :
        /\ flight[a].stage = "served" /\ flight[a].op = "complete_multipart_uploads"
        /\ flight[a].result.ok
        /\ flight[b].stage = "served" /\ flight[b].op \in UploadOps
        /\ flight[b].result.ok
        /\ flight[b].args.upload_id = flight[a].args.upload_id
        /\ flight[b].args.part_number = 1
        /\ flight[a].args.parts[1][1] = 1
        /\ flight[a].args.parts[1][2] /= flight[b].result.val.etag
        /\ DataAt(flight[a].args.key) /= BytesOf(flight[b])
        /\ LET rec == Unwrap(caller[SessionIn(flight[a])].parts[1])
           IN /\ rec.replaced = Some(BytesOf(flight[b]))
              /\ rec.etag = Some(flight[a].args.parts[1][2])

-----------------------------------------------------------------------------
(* Properties of downloads (SpecGet) *)

\* The call just returned is a successful get_object_to_file with the
\* range option "bytes=0-499" of an object of at least 500 bytes.
GotFirst500 ==
    /\ last.op = "get_object_to_file"
    /\ last.result.ok
    /\ last.args.options = Some([range |-> Some(RangeFirst500)])
    /\ last.args.key \in DOMAIN objects
    /\ Len(objects[last.args.key].data) >= 500

\* C20: when get_object_to_file with the range option "bytes=0-499" has
\* returned Ok for an object of at least 500 bytes, the local file at the
\* path given exists, is exactly 500 bytes long and holds the first 500
\* bytes of the object, whatever the file held before and however the
\* response was cut into chunks.
C20_RangeWritesFirst500Bytes ==
    GotFirst500 =>
        /\ ResolvedPath(last.args.file_path) \in DOMAIN disk.files
        /\ Len(disk.files[ResolvedPath(last.args.file_path)]) = 500
        /\ disk.files[ResolvedPath(last.args.file_path)]
             = SubSeq(objects[last.args.key].data, 1, 500)

\* Such a download of an object longer than 500 bytes, in several chunks.
C20_Witness ==
    /\ GotFirst500
    /\ Len(objects[last.args.key].data) > 500
    /\ last.args.size < 500
    /\ Len(disk.files[ResolvedPath(last.args.file_path)]) = 500

\* The call just returned is a successful get_object_to_file with no range
\* of an object that exists.
GotWhole ==
    /\ last.op = "get_object_to_file"
    /\ last.result.ok
    /\ last.args.options = None
    /\ last.args.key \in DOMAIN objects

\* C21: when get_object_to_file without a range has returned Ok, the local
\* file holds the chunks of the response in the order they came, each once
\* and nothing after them: its bytes are the object's bytes, so its ETag
\* (MD5) is the object's.
C21_WholeObjectWrittenInOrder ==
    GotWhole =>
        /\ ResolvedPath(last.args.file_path) \in DOMAIN disk.files
        /\ disk.files[ResolvedPath(last.args.file_path)]
             = Concat(Chunks(objects[last.args.key].data, last.args.size))
        /\ disk.files[ResolvedPath(last.args.file_path)] = objects[last.args.key].data
        /\ ETagOf(disk.files[ResolvedPath(last.args.file_path)])
             = ETagOf(objects[last.args.key].data)

\* Such a download of a 700-byte object that came in four chunks.
C21_Witness ==
    /\ GotWhole
    /\ Len(objects[last.args.key].data) = 700
    /\ Len(Chunks(objects[last.args.key].data, last.args.size)) = 4
    /\ Len(disk.files[ResolvedPath(last.args.file_path)]) = 700

\* A step that is a call of get_object_to_file.
GetStep == last.op = "none" /\ last'.op = "get_object_to_file"

\* C25: a call of get_object_to_file whose file path fails validate_path
\* returns Err, sends no request and leaves the caller's disk as it was:
\* no directory and no file is made.
C25_InvalidPathTouchesNothing ==
    [][GetStep /\ ~validate_path(last'.args.file_path) =>
          /\ ~last'.result.ok
          /\ last'.sent = 0
          /\ disk' = disk
          /\ uploads' = uploads /\ objects' = objects]_vars

\* A call with the path "/o>/f" has returned, an object being there to fetch.
C25_Witness ==
    /\ last.op = "get_object_to_file"
    /\ last.args.file_path = <<"/", "o", ">", "/", "f">>
    /\ last.args.key \in DOMAIN objects
    /\ ~last.result.ok
    /\ last.result.err = ErrOther("invalid file path")

\* The call of this step failed otherwise than by its response stream
\* breaking: by a validation, a local, a transport or a status error.
FailedBeforeBody ==
    /\ GetStep
    /\ ~last'.result.ok
    /\ ~(last'.wire = "cut" /\ last'.result.err.kind = "Transport")

\* C30: get_object_to_file creates or empties the local file only after the
\* request has returned a successful response.  A call that fails with a
\* validation, transport or status error leaves every file as it was: none
\* is made and the one at file_path keeps its bytes.  A call that changes a
\* file has sent its request and the service has answered it with the object.
C30_FileOnlyAfterSuccessfulResponse ==
    [][/\ FailedBeforeBody => disk'.files = disk.files
       /\ GetStep /\ disk'.files /= disk.files =>
             /\ last'.sent = 1
             /\ last'.wire \in {"ok", "cut"}
             /\ last'.args.key \in DOMAIN objects]_vars

\* A call has failed with a status error while the file at its path holds
\* an earlier download.
C30_Witness ==
    /\ last.op = "get_object_to_file"
    /\ ~last.result.ok
    /\ last.result.err.kind = "StatusError"
    /\ ResolvedPath(last.args.file_path) \in DOMAIN disk.files
    /\ Len(disk.files[ResolvedPath(last.args.file_path)]) >= 499

\* The step is a call of get_object_to_file with a valid file path whose
\* parent directory does not exist.
GetUnderMissingParent ==
    /\ GetStep
    /\ validate_path(ResolvedPath(last'.args.file_path))
    /\ IsSome(parent(ResolvedPath(last'.args.file_path)))
    /\ Unwrap(parent(ResolvedPath(last'.args.file_path))) \notin disk.dirs

\* C26 as stated: a call of get_object_to_file with a valid file path,
\* absolute or relative, whose parent directory does not exist makes the
\* parent directory, whatever becomes of the request, and does not fail
\* because the path does not exist yet.
C26_MissingParentIsCreated ==
    [][GetUnderMissingParent =>
          /\ Unwrap(parent(ResolvedPath(last'.args.file_path))) \in disk'.dirs
          /\ ~(~last'.result.ok /\ last'.result.err = ErrIo("not found"))]_vars

\* C26 for absolute paths: the parent directory is made before the request
\* is sent, so it exists even when the request then fails, and a
\* successful call has written the object under it.
C26_AbsoluteMissingParentIsCreated ==
    [][GetUnderMissingParent /\ ~is_relative(last'.args.file_path) =>
          /\ Unwrap(parent(last'.args.file_path)) \in disk'.dirs
          /\ ~(~last'.result.ok /\ last'.result.err.kind = "Io")
          /\ last'.result.ok => last'.args.file_path \in DOMAIN disk'.files]_vars

\* A call with the relative path "n/f" has failed because the path does
\* not exist: nothing was sent and the directory "n" was not made.
C26_Witness ==
    /\ last.op = "get_object_to_file"
    /\ last.args.file_path = <<"n", "/", "f">>
    /\ last.args.bucket = TheBucket
    /\ last.args.key \in DOMAIN objects
    /\ ~last.result.ok
    /\ last.result.err = ErrIo("not found")
    /\ last.sent = 0
    /\ Cwd \o <<"/", "n">> \notin disk.dirs

-----------------------------------------------------------------------------
(* Properties of abandoned calls (SpecCancel) *)

\* The request of task t's call is handled in this step.
HandledStep(t) == flight[t].stage = "called" /\ flight'[t].stage = "served"

\* Task t's call ends in this step: its result is taken or its future dropped.
EndedStep(t) == flight[t].stage \in {"called", "served"} /\ flight'[t].stage = "idle"

-----------------------------------------------------------------------------
(* Properties of object tags (SpecTags) *)

\* Every key of tags is in the result of a get_object_tags, with its value.
Returns(result, tags) ==
    /\ result.ok
    /\ \A k \in DOMAIN tags : k \in DOMAIN result.val /\ result.val[k] = tags[k]

\* The options that name the version a put_object_from_file returned.
ReturnedVersion(result) == Some([version_id |-> result.val.content.version_id])

TagStep(op) == last.op = "none" /\ last'.op = op /\ last'.result.ok

\* C23: after put_object_tags(tags) succeeds for a version, get_object_tags
\* for that version returns every key of tags with its value; after
\* delete_object_tags succeeds, get_object_tags returns an empty map; an
\* object put with one tag in its options reports tag_count 1 for the
\* version returned, and get_object_tags for it returns that tag.
C23_TagsFollowPutGetDelete ==
    [][ \A a \in {last'.args}, r \in {last'.result} :
        /\ TagStep("put_object_tags") =>
             Returns(get_object_tags(a.bucket, a.key, a.options, "ok").result', a.tags)
        /\ TagStep("delete_object_tags") =>
             get_object_tags(a.bucket, a.key, a.options, "ok").result' = Ok(NoTags)
        /\ ( /\ TagStep("put_object_from_file")
             /\ IsSome(a.options)
             /\ Cardinality(DOMAIN Unwrap(a.options).tags) = 1 ) =>
             /\ head_object(a.bucket, a.key, ReturnedVersion(r), "ok").result'.ok
             /\ head_object(a.bucket, a.key, ReturnedVersion(r), "ok").result'.val.tag_count
                  = Some(1)
             /\ get_object_tags(a.bucket, a.key, ReturnedVersion(r), "ok").result'
                  = Ok(Unwrap(a.options).tags) ]_vars

\* Two tags were put on the first of two versions, and a get for that
\* version returned them.
C23_Witness ==
    /\ last.op = "get_object_tags"
    /\ last.args.options = Some([version_id |-> Some(1)])
    /\ last.result = Ok(TagsBC)
    /\ KeyA \in DOMAIN versions
    /\ Len(versions[KeyA]) = 2
    /\ versions[KeyA][2].tags = TagA

-----------------------------------------------------------------------------
(* Properties of part uploads (SpecParts) *)

\* A step that is a call of upload_part_from_file.
FileUploadStep == last.op = "none" /\ last'.op = "upload_part_from_file"

\* What upload_part_from_buffer yields, in the state before the step, for
\* the bytes of the file range of the step's call and the same session,
\* part number and network outcome.
SameFromBuffer ==
    upload_part_from_buffer(
        last'.args.bucket, last'.args.key, FileSlice(last'.args.range),
        [part_number |-> last'.args.part_number, upload_id |-> last'.args.upload_id],
        IF last'.wire = "unused" THEN "ok" ELSE last'.wire)

\* C28: for every range [start, end) within the file, upload_part_from_file
\* does what upload_part_from_buffer does with the bytes of the range: the
\* same result and ETag, the same requests sent, the same sessions and
\* parts on the service afterwards.  A part it stores holds exactly the
\* end - start bytes of the range and no byte at or past end.
C28_FileRangeEqualsBuffer ==
    [][FileUploadStep =>
          /\ last'.result = SameFromBuffer.result
          /\ last'.sent = SameFromBuffer.sent
          /\ uploads' = SameFromBuffer.svc.uploads
          /\ objects' = SameFromBuffer.svc.objects
          /\ last'.result.ok =>
                /\ last'.result.val.etag = ETagOf(FileSlice(last'.args.range))
                /\ IsIssuedId(last'.args.upload_id)
                /\ uploads'[SessionOf(last'.args.upload_id)].parts[last'.args.part_number]
                     = Some(FileSlice(last'.args.range))
                /\ Len(FileSlice(last'.args.range))
                     = last'.args.range.end - last'.args.range.start]_vars

\* An upload of the range [0, 1) of the two-byte file has stored one byte.
C28_Witness ==
    /\ last.op = "upload_part_from_file"
    /\ last.result.ok
    /\ last.args.range = [start |-> 0, end |-> 1]
    /\ Len(FileContent) > last.args.range.end
    /\ uploads[SessionOf(last.args.upload_id)].parts[last.args.part_number]
         = Some(<<FileContent[1]>>)

-----------------------------------------------------------------------------
(* Properties of appends (SpecAppend) *)

AppendOps ==
    {"append_object_from_file", "append_object_from_buffer", "append_object_from_base64"}

\* A step that is a successful append.
AppendedStep == last.op = "none" /\ last'.op \in AppendOps /\ last'.result.ok

\* The bytes the append of this step sends.
AppendedPiece ==
    IF last'.op = "append_object_from_file" THEN FileContent
    ELSE IF last'.op = "append_object_from_buffer" THEN last'.args.buffer
    ELSE Base64Decode(last'.args.base64_string).val

\* The key the append of this step names, without a leading or trailing "/".
AppendedKey == strip_suffix(strip_prefix(last'.args.key))

\* The length of the object at key, 0 when there is none.
LengthAt(objs, key) == IF key \in DOMAIN objs THEN Len(objs[key].data) ELSE 0

\* C22: every successful append of n bytes at position p, from a file, a
\* buffer or a base64 string, found the object p bytes long (not there for
\* p = 0), returns next_append_position = p + n and leaves the object its
\* old bytes followed by the n new ones.  So along a chain that starts at 0
\* on a new key and passes each returned position on, the object's length
\* is the sum of the lengths appended; head_object reports that length as
\* content_length.
C22_AppendPositionsAddUp ==
    /\ [][AppendedStep =>
            /\ LengthAt(objects, AppendedKey) = last'.args.position
            /\ last'.result.val.next_append_position
                 = last'.args.position + Len(AppendedPiece)
            /\ AppendedKey \in DOMAIN objects'
            /\ objects'[AppendedKey].data
                 = (IF AppendedKey \in DOMAIN objects THEN objects[AppendedKey].data
                    ELSE <<>>) \o AppendedPiece
            /\ LengthAt(objects', AppendedKey) = last'.result.val.next_append_position]_vars
    /\ [](last.op = "head_object" /\ last.result.ok =>
            last.result.val.content_length = LengthAt(objects, last.args.key))

\* The third append of a chain has succeeded at a position past 0.
C22_Witness ==
    /\ last.op \in AppendOps
    /\ last.result.ok
    /\ last.args.position >= 3
    /\ last.result.val.next_append_position > last.args.position
    /\ LengthAt(objects, KeyA) = last.result.val.next_append_position

-----------------------------------------------------------------------------
(* Properties of folders (SpecFolder) *)

\* The keys of the objects in a folder: those that start with the folder's
\* key and are not the folder's own key.
ContentsOf(objs, folder) == {k \in DOMAIN objs : HasPrefix(k, folder) /\ k /= folder}

\* A folder is present when an object has its key or is in it: it is what
\* a listing with the delimiter "/" shows.
FolderPresent(objs, folder) == \E k \in DOMAIN objs : HasPrefix(k, folder)

\* A step that is a call of delete_folder.
DeleteFolderStep == last.op = "none" /\ last'.op = "delete_folder"

====
